---- MODULE Spec2Model ----
(***************************************************************************)
(* universal-fs: the read/write dispatch of the two backends (node-fs,     *)
(* browser-fs), the shared helpers of utils and the lazy facade of index.  *)
(*                                                                         *)
(* A JavaScript string is a sequence of tokens: text that comes from the   *)
(* caller (file names, paths) is one token per character, a literal of     *)
(* the program is one token.  A byte buffer is a sequence of 0..255.       *)
(***************************************************************************)
EXTENDS Integers, Sequences, FiniteSets, TLC

VARIABLES rd, wr, dl, disk, globals, loaded, fsRef, callers, ex, reads, pu

vars == <<rd, wr, dl, disk, globals, loaded, fsRef, callers, ex, reads, pu>>

(* ----------------------------------------------------------------------- *)
(* bounds                                                                  *)
(* ----------------------------------------------------------------------- *)
\* number of facade calls that may be in flight together
MaxCallers == 2

\* number of readFile calls of one backend that may be in flight together
MaxReads == 2

(* ----------------------------------------------------------------------- *)
(* generic helpers                                                         *)
(* ----------------------------------------------------------------------- *)
\* the JavaScript value undefined (an absent option, an unset field)
Undefined == "<undefined>"

\* an optional value: <<>> for undefined, <<v>> for v
None == <<>>
Some(v) == <<v>>

RECURSIVE Join(_, _)
\* Array.prototype.join over a sequence of tokens
Join(items, sep) ==
  IF Len(items) = 0 THEN <<>>
  ELSE IF Len(items) = 1 THEN <<items[1]>>
  ELSE <<items[1], sep>> \o Join(Tail(items), sep)

\* s contains t as a contiguous run (String.prototype.includes)
Contains(s, t) ==
  \E i \in 0..(Len(s) - Len(t)) : SubSeq(s, i + 1, i + Len(t)) = t

\* s begins with t
StartsWith(s, t) == Len(s) >= Len(t) /\ SubSeq(s, 1, Len(t)) = t

\* index of the last position of s holding c, 0 when there is none
LastIndexOf(s, c) ==
  LET hits == {i \in 1..Len(s) : s[i] = c}
  IN IF hits = {} THEN 0 ELSE CHOOSE i \in hits : \A j \in hits : j <= i

(* ----------------------------------------------------------------------- *)
(* sample data                                                             *)
(* ----------------------------------------------------------------------- *)
\* byte contents: empty, "{}", "a ", one byte that is not valid UTF-8
SampleContents == {<<>>, <<123, 125>>, <<97, 32>>, <<200>>}

\* strings handed to readFile / writeFile as file name
FnATxt == <<"a", ".", "t", "x", "t">>
FnDirB == <<"d", "/", "b", ".", "j", "s", "o", "n">>
FnSub == <<"s", "u", "b">>
FnUrl == <<"h", ":", "/", "/", "x", "/", "c", ".", "t", "x", "t">>
FnUnsafe == <<".", ".", "/", "<", "?", ".", "m", "d">>
FnDirSlash == <<"d", "/">>
Filenames == {FnATxt, FnDirB, FnSub, FnUrl}

(* ----------------------------------------------------------------------- *)
(* utils: MIME types                                                       *)
(* ----------------------------------------------------------------------- *)
Digits == {"0", "1", "2", "3", "4", "5", "6", "7", "8", "9"}
LowerLetters ==
  {"a", "b", "c", "d", "e", "f", "g", "h", "i", "j", "k", "l", "m",
   "n", "o", "p", "q", "r", "s", "t", "u", "v", "w", "x", "y", "z"}
UpperLetters ==
  {"A", "B", "C", "D", "E", "F", "G", "H", "I", "J", "K", "L", "M",
   "N", "O", "P", "Q", "R", "S", "T", "U", "V", "W", "X", "Y", "Z"}
UpperSeq ==
  <<"A", "B", "C", "D", "E", "F", "G", "H", "I", "J", "K", "L", "M",
    "N", "O", "P", "Q", "R", "S", "T", "U", "V", "W", "X", "Y", "Z">>
LowerSeq ==
  <<"a", "b", "c", "d", "e", "f", "g", "h", "i", "j", "k", "l", "m",
    "n", "o", "p", "q", "r", "s", "t", "u", "v", "w", "x", "y", "z">>

\* String.prototype.toLowerCase, one character
LowerChar(c) ==
  IF c \in UpperLetters
  THEN LowerSeq[CHOOSE i \in 1..26 : UpperSeq[i] = c]
  ELSE c

ToLowerCase(s) == [i \in 1..Len(s) |-> LowerChar(s[i])]

\* the extension-to-MIME table, <<extension, MIME type>>
MIME_TYPES ==
  <<
     <<<<".", "t", "x", "t">>, <<"text/plain">>>>,
     <<<<".", "j", "s", "o", "n">>, <<"application/json">>>>,
     <<<<".", "c", "s", "v">>, <<"text/csv">>>>,
     <<<<".", "m", "d">>, <<"text/markdown">>>>,
     <<<<".", "h", "t", "m", "l">>, <<"text/html">>>>,
     <<<<".", "c", "s", "s">>, <<"text/css">>>>,
     <<<<".", "j", "s">>, <<"application/javascript">>>>,
     <<<<".", "t", "s">>, <<"application/typescript">>>>,
     <<<<".", "x", "m", "l">>, <<"application/xml">>>>,
     <<<<".", "p", "n", "g">>, <<"image/png">>>>,
     <<<<".", "j", "p", "g">>, <<"image/jpeg">>>>,
     <<<<".", "j", "p", "e", "g">>, <<"image/jpeg">>>>,
     <<<<".", "g", "i", "f">>, <<"image/gif">>>>,
     <<<<".", "w", "e", "b", "p">>, <<"image/webp">>>>,
     <<<<".", "s", "v", "g">>, <<"image/svg+xml">>>>,
     <<<<".", "i", "c", "o">>, <<"image/x-icon">>>>,
     <<<<".", "m", "p", "3">>, <<"audio/mpeg">>>>,
     <<<<".", "w", "a", "v">>, <<"audio/wav">>>>,
     <<<<".", "o", "g", "g">>, <<"audio/ogg">>>>,
     <<<<".", "m", "p", "4">>, <<"video/mp4">>>>,
     <<<<".", "w", "e", "b", "m">>, <<"video/webm">>>>,
     <<<<".", "a", "v", "i">>, <<"video/x-msvideo">>>>,
     <<<<".", "m", "i", "d">>, <<"audio/midi">>>>,
     <<<<".", "m", "i", "d", "i">>, <<"audio/midi">>>>,
     <<<<".", "p", "d", "f">>, <<"application/pdf">>>>,
     <<<<".", "d", "o", "c">>, <<"application/msword">>>>,
     <<<<".", "d", "o", "c", "x">>, <<"application/vnd.openxmlformats-officedocument.wordprocessingml.document">>>>,
     <<<<".", "x", "l", "s">>, <<"application/vnd.ms-excel">>>>,
     <<<<".", "x", "l", "s", "x">>, <<"application/vnd.openxmlformats-officedocument.spreadsheetml.sheet">>>>,
     <<<<".", "z", "i", "p">>, <<"application/zip">>>>,
     <<<<".", "t", "a", "r">>, <<"application/x-tar">>>>,
     <<<<".", "g", "z">>, <<"application/gzip">>>>,
     <<<<".", "a", "l", "s">>, <<"application/gzip">>>>
  >>

OctetStream == <<"application/octet-stream">>

\* the match of /\.[a-zA-Z0-9]+$/ in s: <<>> when there is none
FILE_EXTENSION_REGEX(s) ==
  LET dot == LastIndexOf(s, ".")
      alnum == LowerLetters \cup UpperLetters \cup Digits
  IN IF dot > 0 /\ dot < Len(s) /\ \A i \in (dot + 1)..Len(s) : s[i] \in alnum
     THEN SubSeq(s, dot, Len(s))
     ELSE <<>>

guessMimeType(filename) ==
  LET m == FILE_EXTENSION_REGEX(filename)
      ext == ToLowerCase(m)
      hits == {i \in 1..Len(MIME_TYPES) : MIME_TYPES[i][1] = ext}
  IN IF hits = {} THEN OctetStream ELSE MIME_TYPES[CHOOSE i \in hits : TRUE][2]

\* the length sanitizeFilename cuts a name to
FILENAME_MAX == 255

sanitizeFilename_keepsSlash(filename) ==
  LET unsafe == {"<", ">", ":", "\"", "\\", "|", "?", "*"}
      replaced == [i \in 1..Len(filename) |->
                     IF filename[i] \in unsafe THEN "_" ELSE filename[i]]
      nondot == {i \in 1..Len(replaced) : replaced[i] # "."}
      first == IF nondot = {} THEN Len(replaced) + 1
               ELSE CHOOSE i \in nondot : \A j \in nondot : i <= j
      stripped == SubSeq(replaced, first, Len(replaced))
  IN SubSeq(stripped, 1,
            IF Len(stripped) < FILENAME_MAX THEN Len(stripped) ELSE FILENAME_MAX)

\* replaces every one of < > : " / \ | ? * by _, drops leading dots, caps at 255
sanitizeFilename(filename) ==
  LET unsafe == {"<", ">", ":", "\"", "/", "\\", "|", "?", "*"}
      replaced == [i \in 1..Len(filename) |->
                     IF filename[i] \in unsafe THEN "_" ELSE filename[i]]
      nondot == {i \in 1..Len(replaced) : replaced[i] # "."}
      first == IF nondot = {} THEN Len(replaced) + 1
               ELSE CHOOSE i \in nondot : \A j \in nondot : i <= j
      stripped == SubSeq(replaced, first, Len(replaced))
  IN SubSeq(stripped, 1,
            IF Len(stripped) < FILENAME_MAX THEN Len(stripped) ELSE FILENAME_MAX)

(* ----------------------------------------------------------------------- *)
(* utils: errors                                                           *)
(* ----------------------------------------------------------------------- *)
\* an Error object of class cls with the given message
MkError(cls, message) ==
  [cls |-> cls, isError |-> TRUE, message |-> message, cause |-> None,
   strategy |-> Undefined, operation |-> Undefined, filename |-> None]

\* a thrown value that is not an Error (a string, a plain object)
NonErrorValue ==
  [cls |-> "value", isError |-> FALSE, message |-> <<>>, cause |-> None,
   strategy |-> Undefined, operation |-> Undefined, filename |-> None]

createErrorParameters(cause, strategy, operation, filename) ==
  [cause |-> cause, strategy |-> strategy, operation |-> operation,
   filename |-> filename]

\* new UniversalFsError(message, params): Object.assign(this, params)
UniversalFsError(message, params) ==
  [cls |-> "UniversalFsError", isError |-> TRUE, message |-> message,
   cause |-> params.cause, strategy |-> params.strategy,
   operation |-> params.operation, filename |-> params.filename]

\* new UniversalFsError(message) without params
UniversalFsErrorBare(message) == MkError("UniversalFsError", message)

formatFsErrorMessage(e, strategy, operation) ==
  LET env == IF strategy = "node" THEN "Node.js" ELSE "Browser"
  IN <<"Failed to ", operation, " file in ", env, ": ">>
       \o (IF e.isError THEN e.message ELSE <<"Unknown error">>)

MSG_UNSUPPORTED_INPUT == <<"Unsupported input type">>

(* ----------------------------------------------------------------------- *)
(* utils: formats                                                          *)
(* ----------------------------------------------------------------------- *)
VALID_FORMATS == <<"text", "json", "blob", "binary", "arrayBuffer">>

\* format strings a caller may put in options.format
FormatInputs == {Undefined, "text", "json", "blob", "binary", "arrayBuffer", "foobar"}

IsFormatValid(format) == \E i \in 1..Len(VALID_FORMATS) : VALID_FORMATS[i] = format

\* the TypeError isValidFormat throws for a format outside VALID_FORMATS
FormatError(format) ==
  MkError("TypeError",
          <<"[ufs] Unsupported format: \"", format, "\", Supported: ">>
            \o Join(VALID_FORMATS, ", "))

\* isValidFormat: [ok |-> TRUE] or [ok |-> FALSE, err |-> the TypeError]
isValidFormat(format) ==
  IF ~IsFormatValid(format)
  THEN [ok |-> FALSE, err |-> FormatError(format)]
  ELSE [ok |-> TRUE, err |-> NonErrorValue]

\* decideFormat: options.format || "text", validated
decideFormat(options) ==
  LET format == IF options.format = Undefined THEN "text" ELSE options.format
      v == isValidFormat(format)
  IN [ok |-> v.ok, format |-> format, err |-> v.err]

(* ----------------------------------------------------------------------- *)
(* text codecs: TextDecoder, Buffer.toString, Buffer.from                   *)
(* ----------------------------------------------------------------------- *)
\* code points that have a character token of their own
CodeTable ==
  <<<<10, "\n">>, <<32, " ">>, <<34, "\"">>, <<50, "2">>, <<52, "4">>,
    <<91, "[">>, <<93, "]">>, <<97, "a">>, <<123, "{">>, <<125, "}">>,
    <<200, "U+00C8">>, <<55296, "U+D800">>, <<65533, "U+FFFD">>>>

\* the code points of unpaired surrogates: no UTF-8 sequence stands for them
Surrogates == 55296..57343

Whitespace == {" ", "\n", "\t", "\r"}

CharOfCode(cp) ==
  LET hits == {i \in 1..Len(CodeTable) : CodeTable[i][1] = cp}
  IN IF hits = {} THEN ToString(cp) ELSE CodeTable[CHOOSE i \in hits : TRUE][2]

CodeOfChar(c) ==
  LET hits == {i \in 1..Len(CodeTable) : CodeTable[i][2] = c}
  IN IF hits = {} THEN 65533 ELSE CodeTable[CHOOSE i \in hits : TRUE][1]

\* the length of the longest prefix of s whose elements all satisfy Keep
PrefixLen(s, Keep(_)) ==
  LET stops == {i \in 1..Len(s) : ~Keep(s[i])}
  IN IF stops = {} THEN Len(s)
     ELSE (CHOOSE i \in stops : \A j \in stops : i <= j) - 1

RECURSIVE Utf8Decode(_)
\* UTF-8 decoding with U+FFFD for every malformed byte; a run of ASCII bytes
\* is decoded in one step
Utf8Decode(b) ==
  IF Len(b) = 0 THEN <<>>
  ELSE IF b[1] < 128
    THEN LET Ascii(x) == x < 128
             n == PrefixLen(b, Ascii)
         IN [i \in 1..n |-> CharOfCode(b[i])] \o Utf8Decode(SubSeq(b, n + 1, Len(b)))
  ELSE IF b[1] \in 194..223 /\ Len(b) >= 2 /\ b[2] \in 128..191
    THEN <<CharOfCode((b[1] - 192) * 64 + (b[2] - 128))>>
           \o Utf8Decode(SubSeq(b, 3, Len(b)))
  ELSE IF b[1] \in 224..239 /\ Len(b) >= 3 /\ b[2] \in 128..191 /\ b[3] \in 128..191
          /\ (b[1] - 224) * 4096 + (b[2] - 128) * 64 + (b[3] - 128) >= 2048
          /\ (b[1] - 224) * 4096 + (b[2] - 128) * 64 + (b[3] - 128) \notin Surrogates
    THEN <<CharOfCode((b[1] - 224) * 4096 + (b[2] - 128) * 64 + (b[3] - 128))>>
           \o Utf8Decode(SubSeq(b, 4, Len(b)))
  ELSE <<CharOfCode(65533)>> \o Utf8Decode(Tail(b))

\* latin1 ("binary") decoding: one character per byte
Latin1Decode(b) == [i \in 1..Len(b) |-> CharOfCode(b[i])]

RECURSIVE Utf8Encode(_)
Utf8Encode(s) ==
  IF Len(s) = 0 THEN <<>>
  ELSE IF CodeOfChar(s[1]) < 128
    THEN LET Ascii(c) == CodeOfChar(c) < 128
             n == PrefixLen(s, Ascii)
         IN [i \in 1..n |-> CodeOfChar(s[i])] \o Utf8Encode(SubSeq(s, n + 1, Len(s)))
  ELSE LET c1 == CodeOfChar(s[1])
           \* an unpaired surrogate is encoded as U+FFFD
           cp == IF c1 \in Surrogates THEN 65533 ELSE c1
           head == IF cp < 128 THEN <<cp>>
                   ELSE IF cp < 2048 THEN <<192 + (cp \div 64), 128 + (cp % 64)>>
                   ELSE <<224 + (cp \div 4096), 128 + ((cp \div 64) % 64),
                          128 + (cp % 64)>>
       IN head \o Utf8Encode(Tail(s))

Latin1Encode(s) == [i \in 1..Len(s) |-> CodeOfChar(s[i]) % 256]

\* encodings a caller may put in options.encoding
EncodingInputs == {Undefined, "utf8", "binary"}

\* te.decode(buffer): the shared converter always decodes UTF-8
te_decode(buffer) == Utf8Decode(buffer)

BufferToString_latin1(rawData, encoding) == Latin1Decode(rawData)

\* rawData.toString(encoding) of a Node.js Buffer
BufferToString(rawData, encoding) ==
  IF encoding = "binary" THEN Latin1Decode(rawData) ELSE Utf8Decode(rawData)

\* Buffer.from(text, encoding)
BufferFrom(text, encoding) ==
  IF encoding = "binary" THEN Latin1Encode(text) ELSE Utf8Encode(text)

(* ----------------------------------------------------------------------- *)
(* values                                                                  *)
(* ----------------------------------------------------------------------- *)
\* a JavaScript value: t its type, v its characters (strings, numbers), b its
\* bytes (buffers, views, Blobs), mime and name the type / name of a Blob or
\* File, id the object identity, off / len the window of a view over b
MkVal(t, v) ==
  [t |-> t, v |-> v, b |-> <<>>, mime |-> <<>>, name |-> None, id |-> "none",
   off |-> 0, len |-> 0]

\* a value whose payload is the byte sequence b
MkBytes(t, b) ==
  [t |-> t, v |-> <<>>, b |-> b, mime |-> <<>>, name |-> None, id |-> "none",
   off |-> 0, len |-> Len(b)]

UndefinedVal == MkVal("undefined", <<>>)

\* a Blob object; id tells the caller's object from one the program creates
MkBlob(bytes, mime, id) ==
  [t |-> "Blob", v |-> <<>>, b |-> bytes, mime |-> mime, name |-> None, id |-> id,
   off |-> 0, len |-> Len(bytes)]

MkFile(bytes, mime, name, id) ==
  [t |-> "File", v |-> <<>>, b |-> bytes, mime |-> mime, name |-> Some(name),
   id |-> id, off |-> 0, len |-> Len(bytes)]

(* ----------------------------------------------------------------------- *)
(* utils: JSON                                                             *)
(* ----------------------------------------------------------------------- *)
PREVIEW_LEN == 100

IsSpace(c) == c \in Whitespace

TrimLeft(s) == SubSeq(s, PrefixLen(s, IsSpace) + 1, Len(s))

TrimRight(s) ==
  LET solid == {i \in 1..Len(s) : ~IsSpace(s[i])}
  IN IF solid = {} THEN <<>>
     ELSE SubSeq(s, 1, CHOOSE i \in solid : \A j \in solid : j <= i)

\* the JSON values of the sample with the text JSON.stringify(v, null, 2)
\* gives for each: {}, [], 42, "a ", [42], the string of the one character
\* U+00C8
JsonTable ==
  <<<<MkVal("object", <<>>), <<"{", "}">>>>,
    <<MkVal("array", <<>>), <<"[", "]">>>>,
    <<MkVal("number", <<"4", "2">>), <<"4", "2">>>>,
    <<MkVal("string", <<"a", " ">>), <<"\"", "a", " ", "\"">>>>,
    <<MkVal("array", <<"4", "2">>), <<"[", "\n", " ", " ", "4", "2", "\n", "]">>>>,
    <<MkVal("string", <<"U+00C8">>), <<"\"", "U+00C8", "\"">>>>>>

JsonValues == {JsonTable[i][1] : i \in 1..Len(JsonTable)}

\* JSON.stringify(data, null, 2)
JSONStringify(data) ==
  JsonTable[CHOOSE i \in 1..Len(JsonTable) : JsonTable[i][1] = data][2]

\* JSON.parse: surrounding whitespace is skipped, the texts of the sample
\* values parse to them, anything else is a SyntaxError
JSONParse(text) ==
  LET t == TrimRight(TrimLeft(text))
      hits == {i \in 1..Len(JsonTable) : JsonTable[i][2] = t}
  IN IF hits # {} THEN [ok |-> TRUE, value |-> JsonTable[CHOOSE i \in hits : TRUE][1],
                        err |-> NonErrorValue]
     ELSE IF t = <<>>
       THEN [ok |-> FALSE, value |-> UndefinedVal,
             err |-> MkError("SyntaxError", <<"Unexpected end of JSON input">>)]
     ELSE [ok |-> FALSE, value |-> UndefinedVal,
           err |-> MkError("SyntaxError",
                     <<"Unexpected token '", t[1], "', \"">> \o text
                       \o <<"\" is not valid JSON">>)]

RECURSIVE CollapseWhitespace(_)
\* s.replace(/\s+/g, " ")
CollapseWhitespace(s) ==
  IF Len(s) = 0 THEN <<>>
  ELSE IF IsSpace(s[1])
    THEN <<" ">> \o CollapseWhitespace(TrimLeft(s))
  ELSE LET Solid(c) == ~IsSpace(c)
           n == PrefixLen(s, Solid)
       IN SubSeq(s, 1, n) \o CollapseWhitespace(SubSeq(s, n + 1, Len(s)))

convertToJSON_sliceAfterCollapse(jsonString) ==
  LET parsed == JSONParse(jsonString)
      collapsed == CollapseWhitespace(jsonString)
      cut == IF Len(collapsed) < PREVIEW_LEN THEN Len(collapsed) ELSE PREVIEW_LEN
      preview == SubSeq(collapsed, 1, cut)
  IN IF parsed.ok THEN parsed
     ELSE [ok |-> FALSE, value |-> UndefinedVal,
           err |-> MkError("Error",
                     <<"Invalid JSON format: ">>
                       \o (IF parsed.err.isError THEN parsed.err.message
                           ELSE <<"Unknown error">>)
                       \o <<"\n", "Preview: ">> \o preview
                       \o (IF Len(jsonString) > PREVIEW_LEN THEN <<"...">> ELSE <<>>))]

\* convertToJSON: JSON.parse, or the Error with the parser's message and a preview
convertToJSON(jsonString) ==
  LET parsed == JSONParse(jsonString)
      cut == IF Len(jsonString) < PREVIEW_LEN THEN Len(jsonString) ELSE PREVIEW_LEN
      preview == CollapseWhitespace(SubSeq(jsonString, 1, cut))
  IN IF parsed.ok THEN parsed
     ELSE [ok |-> FALSE, value |-> UndefinedVal,
           err |-> MkError("Error",
                     <<"Invalid JSON format: ">>
                       \o (IF parsed.err.isError THEN parsed.err.message
                           ELSE <<"Unknown error">>)
                       \o <<"\n", "Preview: ">> \o preview
                       \o (IF Len(jsonString) > PREVIEW_LEN THEN <<"...">> ELSE <<>>))]

(* ----------------------------------------------------------------------- *)
(* utils: Format Converter                                                 *)
(* ----------------------------------------------------------------------- *)
\* conversion result: ok with a value, or the error that was thrown
ConvOk(value) == [ok |-> TRUE, value |-> value, err |-> NonErrorValue]
ConvThrow(err) == [ok |-> FALSE, value |-> UndefinedVal, err |-> err]

\* convertFromBuffer of utils (browser reads, Blob inputs and network reads)
convertFromBuffer(buffer, mimeType, options) ==
  LET d == decideFormat(options)
  IN IF ~d.ok THEN ConvThrow(d.err)
     ELSE CASE d.format = "text" -> ConvOk(MkVal("string", te_decode(buffer)))
            [] d.format = "json" ->
                 LET j == convertToJSON(te_decode(buffer))
                 IN IF j.ok THEN ConvOk(j.value) ELSE ConvThrow(j.err)
            [] d.format = "blob" -> ConvOk(MkBlob(buffer, mimeType, "new"))
            [] d.format = "arrayBuffer" -> ConvOk(MkBytes("ArrayBuffer", buffer))
            [] d.format = "binary" -> ConvOk(MkBytes("Uint8Array", buffer))

\* convertToBlob: a Blob, or the Buffer itself where Blob cannot be constructed
convertToBlob(rawData, mimeType, blobAvailable) ==
  IF blobAvailable THEN MkBlob(rawData, mimeType, "new")
  ELSE MkBytes("Buffer", rawData)

\* convertFromBuffer of node-fs (local-path reads)
convertFromBufferNode(rawData, options, filepath, blobAvailable) ==
  LET d == decideFormat(options)
      encoding == IF options.encoding = Undefined THEN "utf8" ELSE options.encoding
  IN IF ~d.ok THEN ConvThrow(d.err)
     ELSE CASE d.format = "text" ->
                 ConvOk(MkVal("string", BufferToString(rawData, encoding)))
            [] d.format = "json" ->
                 LET j == convertToJSON(BufferToString(rawData, encoding))
                 IN IF j.ok THEN ConvOk(j.value) ELSE ConvThrow(j.err)
            [] d.format = "binary" -> ConvOk(MkBytes("Buffer", rawData))
            [] d.format = "arrayBuffer" -> ConvOk(MkBytes("ArrayBuffer", rawData))
            [] d.format = "blob" ->
                 ConvOk(convertToBlob(rawData, guessMimeType(filepath), blobAvailable))

(* ----------------------------------------------------------------------- *)
(* utils: Input Resolver                                                   *)
(* ----------------------------------------------------------------------- *)
isBlob(value) == value.t \in {"Blob", "File"}

\* encodeURIComponent on the characters of the sample names
encodeURIComponent(s) ==
  LET Enc(c) == CASE c = "/" -> "%2F" [] c = " " -> "%20" [] c = ":" -> "%3A"
                  [] c = "<" -> "%3C" [] c = "?" -> "%3F" [] OTHER -> c
  IN [i \in 1..Len(s) |-> Enc(s[i])]

handleBlob_oneScheme(subject, format) ==
  LET isFile == subject.name # None
      actualFilename == IF isFile THEN subject.name[1] ELSE <<"anonymous">>
  IN [url |-> <<"local-", "blob", "://">> \o encodeURIComponent(actualFilename),
      size |-> Len(subject.b),
      mimeType |-> IF subject.mime # <<>> THEN subject.mime
                   ELSE guessMimeType(actualFilename),
      actualFilename |-> actualFilename,
      convertedData |-> IF format = "blob" THEN Some(subject) ELSE None,
      needsBytes |-> format # "blob"]

handleBlob_alwaysBytes(subject, format) ==
  LET isFile == subject.name # None
      actualFilename == IF isFile THEN subject.name[1] ELSE <<"anonymous">>
  IN [url |-> <<"local-", IF isFile THEN "file" ELSE "blob", "://">>
                \o encodeURIComponent(actualFilename),
      size |-> Len(subject.b),
      mimeType |-> IF subject.mime # <<>> THEN subject.mime
                   ELSE guessMimeType(actualFilename),
      actualFilename |-> actualFilename,
      convertedData |-> None,
      needsBytes |-> TRUE]

\* handleBlob up to its byte extraction: everything but buffer
handleBlob(subject, format) ==
  LET isFile == subject.name # None
      actualFilename == IF isFile THEN subject.name[1] ELSE <<"anonymous">>
  IN [url |-> <<"local-", IF isFile THEN "file" ELSE "blob", "://">>
                \o encodeURIComponent(actualFilename),
      size |-> Len(subject.b),
      mimeType |-> IF subject.mime # <<>> THEN subject.mime
                   ELSE guessMimeType(actualFilename),
      actualFilename |-> actualFilename,
      convertedData |-> IF format = "blob" THEN Some(subject) ELSE None,
      needsBytes |-> format # "blob"]

LastSegmentOrAll_noFallback(filename) ==
  SubSeq(filename, LastIndexOf(filename, "/") + 1, Len(filename))

\* filename.split("/").pop() || filename
LastSegmentOrAll(filename) ==
  LET seg == SubSeq(filename, LastIndexOf(filename, "/") + 1, Len(filename))
  IN IF seg = <<>> THEN filename ELSE seg

ResponseOk_below500(status) == status < 500

\* Response.ok
ResponseOk(status) == status \in 200..299

StatusText(status) ==
  CASE status = 200 -> "OK" [] status = 404 -> "Not Found" [] OTHER -> ""

\* what fetch(filename) may settle with
FetchOutcomes(filename) ==
  {[kind |-> "reject", err |-> MkError("TypeError", <<"fetch failed">>),
    status |-> 0, contentType |-> None]}
  \cup {[kind |-> "response", err |-> NonErrorValue, status |-> s, contentType |-> ct] :
          s \in {200, 404}, ct \in {None, Some(<<"text/html">>)}}

\* the Error handleURL throws for a response that is not ok
HttpError(status) ==
  MkError("Error", <<"HTTP ", ToString(status), ": ", StatusText(status)>>)

\* response.url of the response to fetch(filename)
ResponseUrl(filename) == <<"resolved:">> \o filename

\* the record handleURL returns once the body has been read
handleURL(filename, resp, buffer) ==
  [url |-> ResponseUrl(filename),
   size |-> Len(buffer),
   mimeType |-> IF resp.contentType # None THEN resp.contentType[1]
                ELSE guessMimeType(filename),
   actualFilename |-> LastSegmentOrAll(filename)]

(* ----------------------------------------------------------------------- *)
(* the server's filesystem (node:fs, node:path)                            *)
(* ----------------------------------------------------------------------- *)
Cwd == <<"/", "w">>

RECURSIVE CollapseSlashes(_)
CollapseSlashes(s) ==
  IF Len(s) < 2 THEN s
  ELSE IF s[1] = "/" /\ s[2] = "/" THEN CollapseSlashes(Tail(s))
  ELSE <<s[1]>> \o CollapseSlashes(Tail(s))

\* path.resolve(filename) for names without "." and ".." segments: made
\* absolute, repeated slashes collapsed, a trailing slash dropped
PathResolve(filename) ==
  LET abs == IF Len(filename) > 0 /\ filename[1] = "/" THEN CollapseSlashes(filename)
             ELSE CollapseSlashes(Cwd \o <<"/">> \o filename)
  IN IF Len(abs) > 1 /\ abs[Len(abs)] = "/" THEN SubSeq(abs, 1, Len(abs) - 1)
     ELSE abs

\* path.dirname of an absolute, normalised path
PathDirname(p) ==
  LET i == LastIndexOf(p, "/")
  IN IF i <= 1 THEN <<"/">> ELSE SubSeq(p, 1, i - 1)

\* the paths whose state the model tracks; "/" and the working directory
\* always exist as directories
DiskPaths ==
  {PathResolve(f) : f \in Filenames} \cup {PathDirname(PathResolve(FnDirB))}

\* an entry of the filesystem; payloadLen remembers the byte length of the
\* payload the last successful writeFile to the entry was called with (-1
\* for an entry writeFile has not written)
NoEntry == [kind |-> "none", data |-> <<>>, payloadLen |-> -1]
DirEntry == [kind |-> "dir", data |-> <<>>, payloadLen |-> -1]
FileEntry(bytes) == [kind |-> "file", data |-> bytes, payloadLen |-> -1]

EntryAt(d, p) ==
  IF p \in {<<"/">>, Cwd} THEN DirEntry
  ELSE IF p \in DiskPaths THEN d[p]
  ELSE NoEntry

FsError(code, syscall, p) ==
  MkError("Error", <<code, ": ", syscall, " '">> \o p \o <<"'">>)

\* fs.stat(p): the stats, or the error it rejects with
FsStat(d, p) ==
  LET e == EntryAt(d, p)
  IN IF e.kind = "none"
     THEN [ok |-> FALSE, err |-> FsError("ENOENT", "stat", p),
           isFile |-> FALSE, size |-> 0]
     ELSE [ok |-> TRUE, err |-> NonErrorValue,
           isFile |-> e.kind = "file", size |-> Len(e.data)]

\* fs.readFile(p): the bytes, or the error it rejects with
FsReadFile(d, p) ==
  LET e == EntryAt(d, p)
  IN IF e.kind = "file" THEN [ok |-> TRUE, err |-> NonErrorValue, data |-> e.data]
     ELSE [ok |-> FALSE, data |-> <<>>,
           err |-> FsError(IF e.kind = "dir" THEN "EISDIR" ELSE "ENOENT", "open", p)]

\* a failure of the host that does not depend on the modelled entries
FsDenied(syscall, p) == FsError("EACCES", syscall, p)

(* ----------------------------------------------------------------------- *)
(* readFile (emitReadFileFunction, readFileLocal)                          *)
(* ----------------------------------------------------------------------- *)
Strategies == {"node", "browser"}

\* an object without a prototype (Object.create(null)): it has no toString
BareObject == MkVal("bareObject", <<>>)

\* values a caller may pass as readFile's first argument
ReadInputs ==
  {MkVal("string", f) : f \in {FnATxt, FnSub, FnUrl, FnDirB, FnDirSlash}}
  \cup {MkBlob(b, m, "in") : b \in {<<123, 125>>, <<97, 32>>}, m \in {<<>>, <<"text/plain">>}}
  \cup {MkFile(<<123, 125>>, <<>>, FnATxt, "in")}
  \cup {MkVal("null", <<>>), MkVal("number", <<"4", "2">>), BareObject}

OptionInputs ==
  [format : FormatInputs, useDetails : BOOLEAN, encoding : {Undefined, "binary"}]

NoEnvelope ==
  [keys |-> {}, url |-> <<>>, path |-> <<>>, size |-> 0, mimeType |-> <<>>,
   strategy |-> Undefined, data |-> UndefinedVal, filename |-> <<>>]

NoResp == [kind |-> "none", err |-> NonErrorValue, status |-> 0, contentType |-> None]

IdleRd ==
  [pc |-> "idle", strategy |-> "node", input |-> MkVal("null", <<>>),
   options |-> [format |-> Undefined, useDetails |-> FALSE, encoding |-> Undefined],
   nFetch |-> 0, nBody |-> 0, nBlobBytes |-> 0, nStat |-> 0, nRead |-> 0,
   nLocal |-> 0, nConvert |-> 0,
   resp |-> NoResp, statSize |-> 0, netErr |-> None, thrown |-> None,
   raw |-> None,
   outcome |-> "none", value |-> UndefinedVal, details |-> FALSE,
   envelope |-> NoEnvelope, error |-> NonErrorValue,
   via |-> "readFile",
   callerOptions |-> [format |-> Undefined, useDetails |-> FALSE,
                      encoding |-> Undefined]]

\* filename?.toString() of readFile's first argument
FilenameToString(input) ==
  CASE input.t = "null" -> None
    [] input.t = "Blob" -> Some(<<"[object Blob]">>)
    [] input.t = "File" -> Some(<<"[object File]">>)
    [] OTHER -> Some(input.v)

\* whether filename?.toString() can be evaluated: it short-circuits on null
\* and undefined, and throws where toString is not a function
ToStringCallable(input) == input.t # "bareObject"

\* the catch of readFile: the failure leaves wrapped, unless building the
\* error parameters throws inside the catch
ReadFileCatch(e, strategy, input) ==
  IF ~ToStringCallable(input)
  THEN MkError("TypeError", <<"filename?.toString is not a function">>)
  ELSE UniversalFsError(formatFsErrorMessage(e, strategy, "read"),
                        createErrorParameters(Some(e), strategy, "read",
                                              FilenameToString(input)))

\* the call ends rejected with e caught at readFile's outer catch
ReadFail(c, e) ==
  [c EXCEPT !.pc = "done", !.outcome = "error", !.thrown = Some(e),
            !.error = ReadFileCatch(e, c.strategy, c.input)]

ReadReturn_alwaysEnvelope(c, data, env) ==
  [c EXCEPT !.pc = "done", !.outcome = "value", !.details = TRUE,
            !.value = data, !.envelope = env]

\* the call ends resolved: the bare value, or the envelope with useDetails
ReadReturn(c, data, env) ==
  IF ~c.options.useDetails
  THEN [c EXCEPT !.pc = "done", !.outcome = "value", !.value = data]
  ELSE [c EXCEPT !.pc = "done", !.outcome = "value", !.details = TRUE,
                 !.value = data, !.envelope = env]

ReadConvert_rawBuffer(c, h, buffer, convertedData) ==
  LET data == IF convertedData # None THEN convertedData[1]
              ELSE IF buffer # None THEN MkBytes("ArrayBuffer", buffer[1])
              ELSE UndefinedVal
  IN ReadReturn([c EXCEPT !.raw = buffer], data,
                [keys |-> {"url", "size", "mimeType", "strategy", "timestamp",
                           "data", "filename"},
                 url |-> h.url, path |-> <<>>, size |-> h.size,
                 mimeType |-> h.mimeType, strategy |-> c.strategy, data |-> data,
                 filename |-> h.actualFilename])

\* readFile after handleURL / handleBlob: convert unless already converted
ReadConvert(c, h, buffer, convertedData) ==
  LET env(data) ==
        [keys |-> {"url", "size", "mimeType", "strategy", "timestamp", "data",
                   "filename"},
         url |-> h.url, path |-> <<>>, size |-> h.size, mimeType |-> h.mimeType,
         strategy |-> c.strategy, data |-> data, filename |-> h.actualFilename]
  IN IF buffer # None /\ convertedData = None
     THEN LET conv == convertFromBuffer(buffer[1], h.mimeType, c.options)
              c1 == [c EXCEPT !.nConvert = @ + 1, !.raw = buffer]
          IN IF conv.ok THEN ReadReturn(c1, conv.value, env(conv.value))
             ELSE ReadFail(c1, conv.err)
     ELSE LET data == IF convertedData = None THEN UndefinedVal ELSE convertedData[1]
          IN ReadReturn(c, data, env(data))

\* an exists call that has not been made
IdleEx ==
  [pc |-> "idle", strategy |-> "node", target |-> <<>>,
   probe |-> [kind |-> "none", status |-> 0], settled |-> "none",
   result |-> FALSE]

\* no readFile, writeFile or exists call is in progress
AllIdle == rd.pc = "idle" /\ wr.pc = "idle" /\ dl.pc = "idle" /\ ex.pc = "idle"

HandleUrlFailed_noFallback(c, e) == ReadFail([c EXCEPT !.netErr = Some(e)], e)

HandleUrlFailed_alwaysFallback(c, e) ==
  [c EXCEPT !.netErr = Some(e), !.pc = "localStat", !.nLocal = @ + 1,
            !.nStat = @ + 1]

\* the catch around handleURL: the server backend falls back to readFileLocal,
\* whose first step is fs.stat; the browser backend rethrows
HandleUrlFailed(c, e) ==
  LET c1 == [c EXCEPT !.netErr = Some(e)]
  IN IF c.strategy = "node"
     THEN [c1 EXCEPT !.pc = "localStat", !.nLocal = @ + 1, !.nStat = @ + 1]
     ELSE ReadFail(c1, e)

\* readFile(filename, options) of a backend up to its first suspension on
\* I/O; via and callerOptions remember the public method that was called and
\* the options it was called with
ReadStart(strategy, input, options, via, callerOptions) ==
  LET c == [IdleRd EXCEPT !.strategy = strategy, !.input = input,
                          !.options = options, !.via = via,
                          !.callerOptions = callerOptions]
      format == IF options.format = Undefined THEN "text" ELSE options.format
  IN IF input.t = "string"
     THEN [c EXCEPT !.pc = "fetch", !.nFetch = @ + 1]
     ELSE IF isBlob(input)
       THEN LET h == handleBlob(input, format)
            IN IF h.needsBytes
               THEN [c EXCEPT !.pc = "blobBytes", !.nBlobBytes = @ + 1]
               ELSE ReadConvert(c, h, None, h.convertedData)
     ELSE ReadFail(c, MkError("Error", MSG_UNSUPPORTED_INPUT))

\* readFile(filename, options)
ReadFileCall ==
  /\ AllIdle
  /\ \E strategy \in Strategies, input \in ReadInputs, options \in OptionInputs :
       rd' = ReadStart(strategy, input, options, "readFile", options)
  /\ UNCHANGED <<wr, dl, disk, globals, loaded, fsRef, callers, ex, reads, pu>>

\* the read shortcuts of the facade and the format each one fixes
ReadShortcuts ==
  [readText |-> "text", readJSON |-> "json", readBlob |-> "blob",
   readBuffer |-> "arrayBuffer"]

\* options a caller hands to a shortcut: with no format, with another valid
\* format, with an invalid one
ShortcutOptionInputs ==
  [format : {Undefined, "json", "foobar"}, useDetails : BOOLEAN,
   encoding : {Undefined, "binary"}]

getNRead_callerWins(format, options) ==
  IF options.format = Undefined THEN [options EXCEPT !.format = format]
  ELSE options

\* the options _getNRead passes on: { ...options, format }
getNRead(format, options) == [options EXCEPT !.format = format]

\* readText / readJSON / readBlob / readBuffer (filename, options):
\* _getNRead -> readFile of the backend
ReadShortcutCall ==
  /\ AllIdle
  /\ \E strategy \in Strategies, input \in ReadInputs,
        options \in ShortcutOptionInputs, method \in DOMAIN ReadShortcuts :
       rd' = ReadStart(strategy, input, getNRead(ReadShortcuts[method], options),
                       method, options)
  /\ UNCHANGED <<wr, dl, disk, globals, loaded, fsRef, callers, ex, reads, pu>>

\* handleURL after fetch(filename) settled with o
FetchSettled(c, o) ==
  IF o.kind = "reject" THEN HandleUrlFailed(c, o.err)
  ELSE IF ~ResponseOk(o.status)
    THEN HandleUrlFailed([c EXCEPT !.resp = o], HttpError(o.status))
  ELSE [c EXCEPT !.pc = "body", !.resp = o, !.nBody = @ + 1]

\* handleURL after response.arrayBuffer() resolved with bytes, then readFile
BodySettled(c, bytes) ==
  ReadConvert(c, handleURL(c.input.v, c.resp, bytes), Some(bytes), None)

\* handleBlob after blob.arrayBuffer() resolved, then readFile
BlobBytesSettled(c) ==
  LET format == IF c.options.format = Undefined THEN "text" ELSE c.options.format
  IN ReadConvert(c, handleBlob(c.input, format), Some(c.input.b), None)

\* readFileLocal after fs.stat(fullPath) settled with st
LocalStatSettled(c, st) ==
  IF ~st.ok THEN ReadFail(c, st.err)
  ELSE IF ~st.isFile
    THEN ReadFail(c, UniversalFsErrorBare(
                       <<"Path is not a file: ">> \o PathResolve(c.input.v)))
  ELSE [c EXCEPT !.pc = "localRead", !.statSize = st.size, !.nRead = @ + 1]

\* readFileLocal after fs.readFile(fullPath) settled with r: convert, return
LocalReadSettled(c, r, blobAvailable) ==
  LET fullPath == PathResolve(c.input.v)
  IN IF ~r.ok THEN ReadFail(c, r.err)
     ELSE LET conv == convertFromBufferNode(r.data, c.options, fullPath,
                                            blobAvailable)
              c1 == [c EXCEPT !.nConvert = @ + 1, !.raw = Some(r.data)]
          IN IF ~conv.ok THEN ReadFail(c1, conv.err)
             ELSE ReadReturn(c1, conv.value,
                    [keys |-> {"filename", "path", "size", "strategy",
                               "timestamp", "data", "mimeType"},
                     url |-> <<>>, path |-> fullPath,
                     size |-> c.statSize,
                     mimeType |-> guessMimeType(c.input.v),
                     strategy |-> "node", data |-> conv.value,
                     filename |-> c.input.v])

\* what fs.stat(fullPath) may settle with
StatOutcomes(d, fullPath) ==
  {FsStat(d, fullPath),
   [ok |-> FALSE, err |-> FsDenied("stat", fullPath), isFile |-> FALSE, size |-> 0]}

\* what fs.readFile(fullPath) may settle with
ReadOutcomes(d, fullPath) ==
  {FsReadFile(d, fullPath),
   [ok |-> FALSE, data |-> <<>>, err |-> FsDenied("open", fullPath)]}

\* handleURL: fetch(filename) settles
ReadFetchSettle ==
  /\ rd.pc = "fetch"
  /\ \E o \in FetchOutcomes(rd.input.v) : rd' = FetchSettled(rd, o)
  /\ UNCHANGED <<wr, dl, disk, globals, loaded, fsRef, callers, ex, reads, pu>>

\* handleURL: response.arrayBuffer() settles
ReadBodySettle ==
  /\ rd.pc = "body"
  /\ \/ \E bytes \in SampleContents : rd' = BodySettled(rd, bytes)
     \/ rd' = HandleUrlFailed(rd, MkError("TypeError", <<"terminated">>))
  /\ UNCHANGED <<wr, dl, disk, globals, loaded, fsRef, callers, ex, reads, pu>>

\* handleBlob: blob.arrayBuffer() settles
ReadBlobBytesSettle ==
  /\ rd.pc = "blobBytes"
  /\ \/ rd' = BlobBytesSettled(rd)
     \/ \E e \in {NonErrorValue, MkError("Error", <<"blob read failed">>)} :
          rd' = ReadFail(rd, e)
  /\ UNCHANGED <<wr, dl, disk, globals, loaded, fsRef, callers, ex, reads, pu>>

\* readFileLocal: fs.stat(fullPath) settles
ReadLocalStatSettle ==
  /\ rd.pc = "localStat"
  /\ \E st \in StatOutcomes(disk, PathResolve(rd.input.v)) :
       rd' = LocalStatSettled(rd, st)
  /\ UNCHANGED <<wr, dl, disk, globals, loaded, fsRef, callers, ex, reads, pu>>

\* readFileLocal: fs.readFile(fullPath) settles, then convert and return
ReadLocalReadSettle ==
  /\ rd.pc = "localRead"
  /\ \E r \in ReadOutcomes(disk, PathResolve(rd.input.v)), blobAvailable \in BOOLEAN :
       rd' = LocalReadSettled(rd, r, blobAvailable)
  /\ UNCHANGED <<wr, dl, disk, globals, loaded, fsRef, callers, ex, reads, pu>>

\* the caller has taken the settled promise's outcome
ReadDone ==
  /\ rd.pc = "done"
  /\ rd' = IdleRd
  /\ UNCHANGED <<wr, dl, disk, globals, loaded, fsRef, callers, ex, reads, pu>>

(* ----------------------------------------------------------------------- *)
(* writeFile of node-fs                                                    *)
(* ----------------------------------------------------------------------- *)
\* a typed-array or DataView window of len bytes at byteOffset off over v
MkView(t, b, off, len) ==
  [t |-> t, v |-> <<>>, b |-> b, mime |-> <<>>, name |-> None, id |-> "none",
   off |-> off, len |-> len]

\* values a caller may pass as writeFile's data
WriteDataInputs ==
  {MkVal("string", <<"a", " ">>), MkVal("string", <<"U+00C8">>),
   MkBytes("Uint8Array", <<200>>), MkBytes("ArrayBuffer", <<123, 125>>),
   MkBlob(<<200>>, <<>>, "in"), MkView("DataView", <<97, 32, 123>>, 1, 1),
   MkVal("number", <<"4", "2">>)}

WriteOptionInputs ==
  [format : {Undefined}, useDetails : BOOLEAN, encoding : EncodingInputs]

\* names writeFile of node-fs is called with
NodeWriteNames == {FnATxt, FnDirB, FnSub}

\* createErrorParameters(void 0, strategy, "write") at module level
writeErrParams(strategy) == createErrorParameters(None, strategy, "write", None)

\* Object.prototype.toString.call(data)
ToStringTag(data) ==
  CASE data.t = "number" -> "[object Number]"
    [] data.t = "null" -> "[object Null]"
    [] data.t = "undefined" -> "[object Undefined]"
    [] OTHER -> "[object Object]"

normalizeWriteData_wholeBuffer(data, options) ==
  LET encoding == IF options.encoding = Undefined THEN "utf8" ELSE options.encoding
  IN CASE data.t \in {"Uint8Array", "Buffer"} ->
            \* returned as it is: fs.writeFile writes the bytes of its window
            [ok |-> TRUE, err |-> NonErrorValue,
             bytes |-> SubSeq(data.b, data.off + 1, data.off + data.len)]
       [] data.t = "string" -> [ok |-> TRUE, bytes |-> BufferFrom(data.v, encoding),
                                err |-> NonErrorValue]
       [] data.t = "ArrayBuffer" -> [ok |-> TRUE, bytes |-> data.b,
                                     err |-> NonErrorValue]
       [] data.t \in {"Blob", "File"} ->
            [ok |-> TRUE, err |-> NonErrorValue,
             bytes |-> IF encoding # "binary"
                       THEN BufferFrom(Utf8Decode(data.b), encoding)
                       ELSE data.b]
       [] data.t \in {"DataView", "Uint16Array"} ->
            [ok |-> TRUE, err |-> NonErrorValue, bytes |-> data.b]
       [] OTHER ->
            [ok |-> FALSE, bytes |-> <<>>,
             err |-> UniversalFsError(
                       <<"Unsupported data type: ", ToStringTag(data),
                         ". Expected string, Uint8Array, ArrayBuffer, Buffer, or Blob.">>,
                       writeErrParams("node"))]

\* normalizeWriteData: the bytes to write for data, by its type
normalizeWriteData(data, options) ==
  LET encoding == IF options.encoding = Undefined THEN "utf8" ELSE options.encoding
  IN CASE data.t \in {"Uint8Array", "Buffer"} ->
            \* returned as it is: fs.writeFile writes the bytes of its window
            [ok |-> TRUE, err |-> NonErrorValue,
             bytes |-> SubSeq(data.b, data.off + 1, data.off + data.len)]
       [] data.t = "string" -> [ok |-> TRUE, bytes |-> BufferFrom(data.v, encoding),
                                err |-> NonErrorValue]
       [] data.t = "ArrayBuffer" -> [ok |-> TRUE, bytes |-> data.b,
                                     err |-> NonErrorValue]
       [] data.t \in {"Blob", "File"} ->
            [ok |-> TRUE, err |-> NonErrorValue,
             bytes |-> IF encoding # "binary"
                       THEN BufferFrom(Utf8Decode(data.b), encoding)
                       ELSE data.b]
       [] data.t \in {"DataView", "Uint16Array"} ->
            [ok |-> TRUE, err |-> NonErrorValue,
             bytes |-> SubSeq(data.b, data.off + 1, data.off + data.len)]
       [] OTHER ->
            [ok |-> FALSE, bytes |-> <<>>,
             err |-> UniversalFsError(
                       <<"Unsupported data type: ", ToStringTag(data),
                         ". Expected string, Uint8Array, ArrayBuffer, Buffer, or Blob.">>,
                       writeErrParams("node"))]

\* the byte length of the payload writeFile was called with: of a string in
\* the encoding of the call, of a view its window, else the bytes it holds
PayloadByteLength(data, options) ==
  LET encoding == IF options.encoding = Undefined THEN "utf8" ELSE options.encoding
  IN CASE data.t = "string" -> Len(BufferFrom(data.v, encoding))
       [] data.t \in {"DataView", "Uint16Array"} -> data.len
       [] OTHER -> Len(data.b)

\* q is a proper ancestor directory of path p
IsAncestor(q, p) == StartsWith(p, q \o <<"/">>)

\* fs.mkdir(p, {recursive: true})
FsMkdirRecursive(d, p) ==
  LET chain == {q \in DiskPaths : q = p \/ IsAncestor(q, p)}
  IN IF \E q \in chain : d[q].kind = "file"
     THEN [ok |-> FALSE, disk |-> d,
           err |-> FsError(IF EntryAt(d, p).kind = "file" THEN "EEXIST" ELSE "ENOTDIR",
                           "mkdir", p)]
     ELSE [ok |-> TRUE, err |-> NonErrorValue,
           disk |-> [q \in DiskPaths |-> IF q \in chain THEN DirEntry ELSE d[q]]]

\* fs.writeFile(p, bytes)
FsWriteFile(d, p, bytes) ==
  IF EntryAt(d, PathDirname(p)).kind # "dir"
  THEN [ok |-> FALSE, disk |-> d, err |-> FsError("ENOENT", "open", p)]
  ELSE IF EntryAt(d, p).kind = "dir"
    THEN [ok |-> FALSE, disk |-> d, err |-> FsError("EISDIR", "open", p)]
  ELSE [ok |-> TRUE, err |-> NonErrorValue,
        disk |-> [q \in DiskPaths |-> IF q = p THEN FileEntry(bytes) ELSE d[q]]]

\* a writeFile call that has not been made; via and arg remember the public
\* method called and its argument, before the filesystem as the call found it
IdleWr ==
  [pc |-> "idle", strategy |-> "node", filename |-> <<>>, data |-> UndefinedVal,
   options |-> [format |-> Undefined, useDetails |-> FALSE, encoding |-> Undefined],
   bytes |-> <<>>, nAccess |-> 0, nMkdir |-> 0, nWrite |-> 0, nStat |-> 0,
   thrown |-> None, outcome |-> "none", details |-> FALSE,
   envelope |-> NoEnvelope, error |-> NonErrorValue,
   via |-> "writeFile", arg |-> UndefinedVal,
   before |-> [p \in DiskPaths |-> NoEntry]]

\* the catch of writeFile (both backends): {...writeErrParams, cause: e}
WriteFileCatch(e, strategy, filename) ==
  UniversalFsError(formatFsErrorMessage(e, strategy, "write"),
                   [writeErrParams(strategy) EXCEPT !.cause = Some(e)])

WriteFail(c, e) ==
  [c EXCEPT !.pc = "done", !.outcome = "error", !.thrown = Some(e),
            !.error = WriteFileCatch(e, c.strategy, c.filename)]

\* writeFile after the directory is known to exist: normalize, then start
\* fs.writeFile
WriteNormalize(c) ==
  LET n == normalizeWriteData(c.data, c.options)
  IN IF ~n.ok THEN WriteFail(c, n.err)
     ELSE [c EXCEPT !.pc = "write", !.bytes = n.bytes, !.nWrite = @ + 1]

WriteEnvelope_withData(filename, fullPath, size) ==
  [keys |-> {"filename", "path", "size", "strategy", "timestamp", "mimeType",
             "data"},
   url |-> <<>>, path |-> fullPath, size |-> size,
   mimeType |-> guessMimeType(filename), strategy |-> "node",
   data |-> UndefinedVal, filename |-> filename]

\* the object literal writeFile of node-fs returns with useDetails
WriteEnvelope(filename, fullPath, size) ==
  [keys |-> {"filename", "path", "size", "strategy", "timestamp", "mimeType"},
   url |-> <<>>, path |-> fullPath, size |-> size,
   mimeType |-> guessMimeType(filename), strategy |-> "node",
   data |-> UndefinedVal, filename |-> filename]

\* data of every kind normalizeWriteData tells apart: Uint8Array and Buffer
\* (whole and as a window), strings, ArrayBuffer, Blob and File, DataView and
\* another typed array as windows, and values of no supported type
NormalizeInputs ==
  WriteDataInputs \cup
  {MkVal("string", <<>>),
   MkBytes("Buffer", <<97, 32>>),
   MkView("Uint8Array", <<97, 32, 123>>, 1, 2),
   MkView("Uint16Array", <<97, 32, 123, 125>>, 2, 2),
   MkFile(<<200, 97>>, <<>>, FnATxt, "in"),
   MkVal("null", <<>>), UndefinedVal, MkVal("object", <<>>)}

\* writeFile(filename, data, options) of node-fs for data of every kind
WriteAnyCall ==
  /\ AllIdle
  /\ \E filename \in NodeWriteNames, data \in NormalizeInputs,
        options \in WriteOptionInputs :
       wr' = [IdleWr EXCEPT !.pc = "access", !.strategy = "node",
                            !.filename = filename, !.data = data,
                            !.options = options, !.nAccess = @ + 1,
                            !.arg = data, !.before = disk]
  /\ UNCHANGED <<rd, dl, disk, globals, loaded, fsRef, callers, ex, reads, pu>>

\* writeFile(filename, data, options) of node-fs up to exists(dir)
WriteFileCall ==
  /\ AllIdle
  /\ \E filename \in NodeWriteNames, data \in WriteDataInputs,
        options \in WriteOptionInputs :
       wr' = [IdleWr EXCEPT !.pc = "access", !.strategy = "node",
                            !.filename = filename, !.data = data,
                            !.options = options, !.nAccess = @ + 1,
                            !.arg = data, !.before = disk]
  /\ UNCHANGED <<rd, dl, disk, globals, loaded, fsRef, callers, ex, reads, pu>>

\* exists(dir) settles: fs.access succeeded or not; mkdir starts when it did not
WriteAccessSettle ==
  /\ wr.pc = "access"
  /\ LET dir == PathDirname(PathResolve(wr.filename))
     IN \E found \in {EntryAt(disk, dir).kind # "none", FALSE} :
          wr' = IF ~found THEN [wr EXCEPT !.pc = "mkdir", !.nMkdir = @ + 1]
                ELSE WriteNormalize(wr)
  /\ UNCHANGED <<rd, dl, disk, globals, loaded, fsRef, callers, ex, reads, pu>>

\* fs.mkdir(dir, {recursive: true}) settles
WriteMkdirSettle ==
  /\ wr.pc = "mkdir"
  /\ LET dir == PathDirname(PathResolve(wr.filename))
     IN \E m \in {FsMkdirRecursive(disk, dir),
                  [ok |-> FALSE, disk |-> disk, err |-> FsDenied("mkdir", dir)]} :
          /\ disk' = m.disk
          /\ wr' = IF ~m.ok THEN WriteFail(wr, m.err) ELSE WriteNormalize(wr)
  /\ UNCHANGED <<rd, dl, globals, loaded, fsRef, callers, ex, reads, pu>>

\* fs.writeFile(fullPath, normalized) settles
WriteWriteSettle ==
  /\ wr.pc = "write"
  /\ LET fullPath == PathResolve(wr.filename)
     IN \E w \in {FsWriteFile(disk, fullPath, wr.bytes),
                  [ok |-> FALSE, disk |-> disk, err |-> FsDenied("open", fullPath)]} :
          /\ disk' = IF ~w.ok THEN w.disk
                     ELSE [w.disk EXCEPT ![fullPath].payloadLen =
                                           PayloadByteLength(wr.data, wr.options)]
          /\ wr' = IF ~w.ok THEN WriteFail(wr, w.err)
                   ELSE IF wr.options.useDetails
                     THEN [wr EXCEPT !.pc = "stat", !.nStat = @ + 1]
                   ELSE [wr EXCEPT !.pc = "done", !.outcome = "value"]
  /\ UNCHANGED <<rd, dl, globals, loaded, fsRef, callers, ex, reads, pu>>

\* fs.stat(fullPath) settles: the envelope of a write with useDetails
WriteStatSettle ==
  /\ wr.pc = "stat"
  /\ LET fullPath == PathResolve(wr.filename)
     IN \E st \in {FsStat(disk, fullPath),
                   [ok |-> FALSE, err |-> FsDenied("stat", fullPath),
                    isFile |-> FALSE, size |-> 0]} :
          wr' = IF ~st.ok THEN WriteFail(wr, st.err)
                ELSE [wr EXCEPT !.pc = "done", !.outcome = "value",
                                !.details = TRUE,
                                !.envelope =
                                  WriteEnvelope(wr.filename, fullPath, st.size)]
  /\ UNCHANGED <<rd, dl, disk, globals, loaded, fsRef, callers, ex, reads, pu>>

\* the caller has taken the settled promise's outcome
WriteDone ==
  /\ wr.pc = "done"
  /\ wr' = IdleWr
  /\ UNCHANGED <<rd, dl, disk, globals, loaded, fsRef, callers, ex, reads, pu>>

(* ----------------------------------------------------------------------- *)
(* writeFile of browser-fs, triggerDownload                                *)
(* ----------------------------------------------------------------------- *)
DOWNLOAD_TIMEOUT_MS == 30000
REVOKE_DELAY_MS == 100

\* names and data writeFile of browser-fs is called with
BrowserWriteNames == {FnATxt, FnDirB, FnUnsafe}
BrowserWriteData ==
  {MkVal("string", <<"a", " ">>), MkBlob(<<200>>, <<>>, "in"),
   MkBytes("ArrayBuffer", <<123, 125>>)}

\* blob.size of new Blob([data])
BlobSize(data) ==
  IF data.t \in {"string", "number"} THEN Len(Utf8Encode(data.v)) ELSE Len(data.b)

\* URL.createObjectURL(blob)
ObjectUrl == <<"blob:object-url">>

IdleDl ==
  [pc |-> "idle", strategy |-> "browser", filename |-> <<>>, data |-> UndefinedVal,
   options |-> [format |-> Undefined, useDetails |-> FALSE, encoding |-> Undefined],
   urlCreated |-> FALSE, download |-> <<>>, attached |-> FALSE,
   timeoutArmed |-> FALSE, clickListener |-> FALSE, errorListener |-> FALSE,
   revokePending |-> 0, revoked |-> 0, settledWith |-> "none",
   rejection |-> NonErrorValue, timedOut |-> FALSE, clicked |-> FALSE,
   threw |-> FALSE,
   thrown |-> None, outcome |-> "none", details |-> FALSE,
   envelope |-> NoEnvelope, error |-> NonErrorValue]

\* cleanup of triggerDownload: clear the timer, detach the anchor, schedule
\* URL.revokeObjectURL(url) REVOKE_DELAY_MS later
cleanup(c) ==
  [c EXCEPT !.timeoutArmed = FALSE, !.attached = FALSE, !.revokePending = @ + 1]

\* resolve() / reject(e) of the download promise; only the first one counts.
\* writeFile then resumes in a microtask, before any timer or event runs
SettleDownload(c, how, e) ==
  IF c.settledWith # "none" THEN c
  ELSE [c EXCEPT !.settledWith = how, !.rejection = e, !.pc = "settled"]

\* what the promise executor of triggerDownload may run into
ExecutorCases == {"throwCreate", "throwAppend", "throwClick", "clicked", "noEvent"}

DomError(what) == MkError("TypeError", <<what, " is not a function">>)

\* the synchronous part of triggerDownload(url, filename)
triggerDownload(c, filename, case) ==
  LET armed == [c EXCEPT !.download = filename, !.timeoutArmed = TRUE,
                         !.clickListener = TRUE, !.errorListener = TRUE]
      appended == [armed EXCEPT !.attached = TRUE]
  IN CASE case = "throwCreate" ->
            SettleDownload([c EXCEPT !.threw = TRUE], "reject",
                           DomError("document.createElement"))
       [] case = "throwAppend" ->
            SettleDownload([armed EXCEPT !.threw = TRUE], "reject",
                           DomError("document.body.appendChild"))
       [] case = "throwClick" ->
            SettleDownload([appended EXCEPT !.threw = TRUE], "reject",
                           DomError("link.click"))
       [] case = "clicked" ->
            SettleDownload(cleanup([appended EXCEPT !.clickListener = FALSE,
                                                    !.clicked = TRUE]),
                           "resolve", NonErrorValue)
       [] case = "noEvent" -> [appended EXCEPT !.pc = "waiting"]

\* writeFile of browser-fs from its entry to await triggerDownload
DlStart(filename, data, useDetails, case) ==
  triggerDownload([IdleDl EXCEPT !.filename = filename, !.data = data,
                                 !.options.useDetails = useDetails,
                                 !.urlCreated = TRUE],
                  sanitizeFilename(filename), case)

\* writeFile(filename, data, options) of browser-fs up to await triggerDownload
DlWriteFileCall ==
  /\ AllIdle
  /\ \E filename \in BrowserWriteNames, data \in BrowserWriteData,
        useDetails \in BOOLEAN, case \in ExecutorCases :
       dl' = DlStart(filename, data, useDetails, case)
  /\ UNCHANGED <<rd, wr, disk, globals, loaded, fsRef, callers, ex, reads, pu>>

\* names for the download: with directory components, with every unsafe
\* character, climbing out of the directory, of dots only, of FILENAME_MAX
\* characters, one more, and far more
DownloadNames ==
  {<<".", "/", "t", "/", "a", ".", "t", "x", "t">>,
   FnDirB, FnATxt,
   <<"f", "<", ">", ":", "\"", "/", "\\", "|", "?", "*", ".", "m", "d">>,
   <<".", ".", "/", ".", ".", "/", "e">>,
   <<".", ".", ".">>,
   [i \in 1..FILENAME_MAX |-> "a"],
   [i \in 1..(FILENAME_MAX + 1) |-> "a"],
   <<".", ".", "/">> \o [i \in 1..(FILENAME_MAX + 45) |-> "a"] \o <<".", "m", "d">>}

\* writeFile(filename, data, options) of browser-fs for the names above
DlNamedCall ==
  /\ AllIdle
  /\ \E filename \in DownloadNames, data \in BrowserWriteData,
        useDetails \in BOOLEAN, case \in ExecutorCases :
       dl' = DlStart(filename, data, useDetails, case)
  /\ UNCHANGED <<rd, wr, disk, globals, loaded, fsRef, callers, ex, reads, pu>>

\* timers and DOM events are tasks: none runs while writeFile's continuation
\* is queued as a microtask
TaskMayRun == dl.pc \in {"waiting", "done"}

\* the click event reaches the once-listener
DlClick ==
  /\ TaskMayRun /\ dl.clickListener
  /\ dl' = SettleDownload(cleanup([dl EXCEPT !.clickListener = FALSE,
                                             !.clicked = TRUE]),
                          "resolve", NonErrorValue)
  /\ UNCHANGED <<rd, wr, disk, globals, loaded, fsRef, callers, ex, reads, pu>>

\* an error event reaches the once-listener
DlError ==
  /\ TaskMayRun /\ dl.errorListener
  /\ \E msg \in {<<"Unknown error">>, <<"network">>} :
       dl' = SettleDownload(cleanup([dl EXCEPT !.errorListener = FALSE]), "reject",
                            MkError("Error", <<"Download failed: ">> \o msg))
  /\ UNCHANGED <<rd, wr, disk, globals, loaded, fsRef, callers, ex, reads, pu>>

\* the DOWNLOAD_TIMEOUT_MS timer fires
DlTimeout ==
  /\ TaskMayRun /\ dl.timeoutArmed
  /\ dl' = SettleDownload(cleanup([dl EXCEPT !.timedOut = TRUE]), "reject",
                          MkError("Error", <<"Download timeout">>))
  /\ UNCHANGED <<rd, wr, disk, globals, loaded, fsRef, callers, ex, reads, pu>>

\* a REVOKE_DELAY_MS timer fires: URL.revokeObjectURL(url)
DlRevoke ==
  /\ TaskMayRun /\ dl.revokePending > 0
  /\ dl' = [dl EXCEPT !.revokePending = @ - 1, !.revoked = @ + 1]
  /\ UNCHANGED <<rd, wr, disk, globals, loaded, fsRef, callers, ex, reads, pu>>

\* writeFile resumes after await triggerDownload and settles its own promise
DlResume ==
  /\ dl.pc = "settled"
  /\ dl' = IF dl.settledWith = "reject" THEN WriteFail(dl, dl.rejection)
           ELSE IF dl.options.useDetails
             THEN [dl EXCEPT !.pc = "done", !.outcome = "value", !.details = TRUE,
                             !.envelope =
                               [keys |-> {"filename", "url", "size", "strategy",
                                          "timestamp", "mimeType"},
                                url |-> ObjectUrl, path |-> <<>>,
                                size |-> BlobSize(dl.data),
                                mimeType |-> guessMimeType(dl.filename),
                                strategy |-> "browser", data |-> UndefinedVal,
                                filename |-> dl.filename]]
           ELSE [dl EXCEPT !.pc = "done", !.outcome = "value"]
  /\ UNCHANGED <<rd, wr, disk, globals, loaded, fsRef, callers, ex, reads, pu>>

\* nothing of the call is left: no timer is pending and no further event comes
DlQuiescent == dl.pc = "done" /\ ~dl.timeoutArmed /\ dl.revokePending = 0

DlForget ==
  /\ DlQuiescent
  /\ dl' = IdleDl
  /\ UNCHANGED <<rd, wr, disk, globals, loaded, fsRef, callers, ex, reads, pu>>

(* ----------------------------------------------------------------------- *)
(* exists of browser-fs and of node-fs                                     *)
(* ----------------------------------------------------------------------- *)
\* what fetch(url, {method: "head"}) may settle with
HeadOutcomes ==
  {[kind |-> "reject", status |-> 0]}
  \cup {[kind |-> "response", status |-> st] : st \in {200, 204, 304, 404, 500}}

\* what fs.access(path, F_OK) may settle with: success when the entry is
\* there, ENOENT when it is not, EACCES whenever the host denies the lookup
AccessOutcomes(d, p) ==
  {IF EntryAt(d, p).kind # "none" THEN [kind |-> "access", status |-> 0]
   ELSE [kind |-> "ENOENT", status |-> 0],
   [kind |-> "EACCES", status |-> 0]}

existsBrowser_noCatch(o) ==
  IF o.kind = "reject" THEN [settled |-> "rejected", result |-> FALSE]
  ELSE [settled |-> "resolved", result |-> ResponseOk(o.status)]

\* exists of browser-fs: response.ok, false when fetch throws
existsBrowser(o) ==
  IF o.kind = "reject" THEN [settled |-> "resolved", result |-> FALSE]
  ELSE [settled |-> "resolved", result |-> ResponseOk(o.status)]

\* exists of node-fs: true when fs.access resolves, false when it throws
existsNode(a) == [settled |-> "resolved", result |-> a.kind = "access"]

\* exists(target) up to its await
ExistsCall ==
  /\ AllIdle
  /\ \E strategy \in Strategies, target \in Filenames :
       ex' = [IdleEx EXCEPT !.pc = "probing", !.strategy = strategy,
                            !.target = target]
  /\ UNCHANGED <<rd, wr, dl, disk, globals, loaded, fsRef, callers, reads, pu>>

\* the HEAD request or the access check settles and exists returns
ExistsSettle ==
  /\ ex.pc = "probing"
  /\ \E o \in IF ex.strategy = "browser" THEN HeadOutcomes
              ELSE AccessOutcomes(disk, PathResolve(ex.target)) :
       LET r == IF ex.strategy = "browser" THEN existsBrowser(o) ELSE existsNode(o)
       IN ex' = [ex EXCEPT !.pc = "done", !.probe = o, !.settled = r.settled,
                           !.result = r.result]
  /\ UNCHANGED <<rd, wr, dl, disk, globals, loaded, fsRef, callers, reads, pu>>

\* the caller has taken the result
ExistsDone ==
  /\ ex.pc = "done"
  /\ ex' = IdleEx
  /\ UNCHANGED <<rd, wr, dl, disk, globals, loaded, fsRef, callers, reads, pu>>

(* ----------------------------------------------------------------------- *)
(* types: environment detection;  index: the lazy facade                   *)
(* ----------------------------------------------------------------------- *)
\* the globals of the runtime that detection looks at: window, document,
\* process.versions.node, vi (Vitest), Deno or Bun
GlobalStates ==
  [window : BOOLEAN, document : BOOLEAN, processNode : BOOLEAN, vi : BOOLEAN,
   denoBun : BOOLEAN]

isNode(g) == ~g.window /\ g.processNode

isBrowser(g) ==
  LET result == g.window /\ g.document
  IN IF g.vi THEN result
     ELSE result /\ ~g.denoBun /\ ~g.processNode

\* which backend a runtime with globals g calls for
Detect(g) ==
  IF isNode(g) THEN "node" ELSE IF isBrowser(g) THEN "browser" ELSE "none"

NotLoaded == [done |-> FALSE, isNode |-> FALSE, isBrowser |-> FALSE]

Callers == 1..MaxCallers

Readers == 1..MaxReads

IdleCaller ==
  [pc |-> "idle", target |-> "none", backend |-> "none", envAtCall |-> "none",
   firstUse |-> FALSE, error |-> NonErrorValue]

UnsupportedEnvironment ==
  UniversalFsErrorBare(
    <<"Unsupported environment: neither Node.js nor browser detected">>)

EnvFlags_atCall(l, g) == [isNode |-> isNode(g), isBrowser |-> isBrowser(g)]

\* the isNode / isBrowser that getInternalFs reads: the module constants of
\* types, evaluated when the module was loaded
EnvFlags(l, g) == [isNode |-> l.isNode, isBrowser |-> l.isBrowser]

\* getInternalFs up to its first await, for a caller that finds _fs = ref
getInternalFs(c, ref, l, g) ==
  LET flags == EnvFlags(l, g)
      c1 == [c EXCEPT !.envAtCall = Detect(g), !.firstUse = (ref = "none"),
                      !.error = NonErrorValue]
  IN IF ref = "none"
     THEN IF flags.isNode THEN [c1 EXCEPT !.pc = "importing", !.target = "node"]
          ELSE IF flags.isBrowser
            THEN [c1 EXCEPT !.pc = "importing", !.target = "browser"]
          ELSE [c1 EXCEPT !.pc = "rejected", !.error = UnsupportedEnvironment]
     ELSE [c1 EXCEPT !.pc = "dispatched", !.backend = ref]

\* the module of the facade (and with it types) is evaluated
LoadModule ==
  /\ ~loaded.done
  /\ loaded' = [done |-> TRUE, isNode |-> isNode(globals),
                isBrowser |-> isBrowser(globals)]
  /\ UNCHANGED <<rd, wr, dl, disk, globals, fsRef, callers, ex, reads, pu>>

\* a detection global that was missing becomes available
GlobalAppears ==
  /\ \E k \in {"window", "document", "processNode"} :
       /\ ~globals[k]
       /\ globals' = [globals EXCEPT ![k] = TRUE]
  /\ UNCHANGED <<rd, wr, dl, disk, loaded, fsRef, callers, ex, reads, pu>>

\* a public method of ufs is called: _invokeLazyFs -> getInternalFs
FacadeCall(i) ==
  /\ loaded.done
  /\ callers[i].pc = "idle"
  /\ callers' = [callers EXCEPT ![i] = getInternalFs(@, fsRef, loaded, globals)]
  /\ UNCHANGED <<rd, wr, dl, disk, globals, loaded, fsRef, ex, reads, pu>>

\* await import(...) settles: _fs is assigned and the method dispatched on it
FacadeImportSettle(i) ==
  /\ callers[i].pc = "importing"
  /\ \/ /\ fsRef' = callers[i].target
        /\ callers' = [callers EXCEPT ![i].pc = "dispatched",
                                      ![i].backend = callers[i].target]
     \/ /\ callers' = [callers EXCEPT ![i].pc = "rejected",
                         ![i].error = MkError("Error", <<"Cannot find module">>)]
        /\ UNCHANGED fsRef
  /\ UNCHANGED <<rd, wr, dl, disk, globals, loaded, ex, reads, pu>>

\* the facade call has settled and its caller may call again
FacadeReturn(i) ==
  /\ callers[i].pc \in {"dispatched", "rejected"}
  /\ callers' = [callers EXCEPT ![i].pc = "idle"]
  /\ UNCHANGED <<rd, wr, dl, disk, globals, loaded, fsRef, ex, reads, pu>>

(* ----------------------------------------------------------------------- *)
(* readFile calls in flight together                                       *)
(* ----------------------------------------------------------------------- *)
\* inputs of the concurrent calls: a Blob, a File, a URL and a local path
ConcurrentInputs ==
  {MkBlob(<<97, 32>>, <<"text/plain">>, "in"),
   MkFile(<<123, 125>>, <<>>, FnDirB, "in"),
   MkVal("string", FnUrl), MkVal("string", FnATxt)}

ConcurrentOptions ==
  [format : {"text", "arrayBuffer"}, useDetails : BOOLEAN, encoding : {Undefined}]

\* the body the network serves for a URL while the calls are in flight
NetContent(url) == IF url = FnUrl THEN <<97, 32>> ELSE <<200>>

CallOf_sharedLocals(rs, i) == rs[1]

\* the locals of call i: every invocation of readFile has its own url, size,
\* buffer, mimeType, actualFilename and convertedData
CallOf(rs, i) == rs[i]

\* call i starts on an input no call in flight is reading
CReadCall(i) ==
  /\ reads[i].pc = "idle"
  /\ \E strategy \in Strategies, input \in ConcurrentInputs,
        options \in ConcurrentOptions :
       /\ \A j \in Readers : reads[j].pc # "idle" => reads[j].input # input
       /\ reads' = [reads EXCEPT ![i] = ReadStart(strategy, input, options,
                                                  "readFile", options)]
  /\ UNCHANGED <<rd, wr, dl, disk, globals, loaded, fsRef, callers, ex, pu>>

\* fetch of call i settles
CReadFetchSettle(i) ==
  /\ reads[i].pc = "fetch"
  /\ \E o \in {x \in FetchOutcomes(reads[i].input.v) :
                 x.kind = "reject" \/ (x.status = 200 /\ x.contentType = None)} :
       reads' = [reads EXCEPT ![i] = FetchSettled(CallOf(reads, i), o)]
  /\ UNCHANGED <<rd, wr, dl, disk, globals, loaded, fsRef, callers, ex, pu>>

\* response.arrayBuffer() of call i settles
CReadBodySettle(i) ==
  /\ reads[i].pc = "body"
  /\ reads' = [reads EXCEPT ![i] =
                 BodySettled(CallOf(reads, i),
                             NetContent(CallOf(reads, i).input.v))]
  /\ UNCHANGED <<rd, wr, dl, disk, globals, loaded, fsRef, callers, ex, pu>>

\* blob.arrayBuffer() of call i settles
CReadBlobBytesSettle(i) ==
  /\ reads[i].pc = "blobBytes"
  /\ \/ reads' = [reads EXCEPT ![i] = BlobBytesSettled(CallOf(reads, i))]
     \/ reads' = [reads EXCEPT ![i] =
                    ReadFail(CallOf(reads, i),
                             MkError("Error", <<"blob read failed">>))]
  /\ UNCHANGED <<rd, wr, dl, disk, globals, loaded, fsRef, callers, ex, pu>>

\* fs.stat of call i settles
CReadLocalStatSettle(i) ==
  /\ reads[i].pc = "localStat"
  /\ reads' = [reads EXCEPT ![i] =
                 LocalStatSettled(CallOf(reads, i),
                                  FsStat(disk, PathResolve(CallOf(reads, i).input.v)))]
  /\ UNCHANGED <<rd, wr, dl, disk, globals, loaded, fsRef, callers, ex, pu>>

\* fs.readFile of call i settles
CReadLocalReadSettle(i) ==
  /\ reads[i].pc = "localRead"
  /\ reads' = [reads EXCEPT ![i] =
                 LocalReadSettled(CallOf(reads, i),
                                  FsReadFile(disk, PathResolve(CallOf(reads, i).input.v)),
                                  TRUE)]
  /\ UNCHANGED <<rd, wr, dl, disk, globals, loaded, fsRef, callers, ex, pu>>

\* the caller of call i has taken its outcome
CReadDone(i) ==
  /\ reads[i].pc = "done"
  /\ reads' = [reads EXCEPT ![i] = IdleRd]
  /\ UNCHANGED <<rd, wr, dl, disk, globals, loaded, fsRef, callers, ex, pu>>

(* ----------------------------------------------------------------------- *)
(* readFile with format json over texts around the preview length          *)
(* ----------------------------------------------------------------------- *)
\* n copies of the byte b
Rep(n, b) == [i \in 1..n |-> b]

\* byte contents whose text is: empty, "{}", "a ", not valid UTF-8, exactly
\* PREVIEW_LEN characters long, one longer, with a run of mixed whitespace
\* inside, with a run of spaces across character PREVIEW_LEN, and "{}" after
\* PREVIEW_LEN spaces
JsonContents ==
  SampleContents \cup
  {Rep(PREVIEW_LEN - 2, 97) \o <<32, 32>>,
   Rep(PREVIEW_LEN - 1, 97) \o <<32, 32>>,
   <<97, 32, 10, 32, 97>> \o Rep(PREVIEW_LEN, 97),
   Rep(PREVIEW_LEN - 1, 97) \o <<32, 32, 32, 97>>,
   Rep(PREVIEW_LEN, 32) \o <<123, 125>>}

\* names of File inputs: the very name an unnamed Blob resolves to, a name
\* with characters that are URL-escaped, a plain one
FileNames == {<<"anonymous">>, <<"a", " ", "/", "?">>, FnATxt}

JsonInputs ==
  {MkVal("string", f) : f \in {FnATxt, FnUrl}}
  \cup {MkBlob(b, <<>>, "in") : b \in JsonContents}
  \cup {MkFile(<<123, 125>>, <<>>, n, "in") : n \in FileNames}

JsonOptions ==
  [format : {"json"}, useDetails : BOOLEAN, encoding : {Undefined, "binary"}]

\* readFile(filename, {format: "json", ...})
JsonReadCall ==
  /\ AllIdle
  /\ \E strategy \in Strategies, input \in JsonInputs, options \in JsonOptions :
       rd' = ReadStart(strategy, input, options, "readFile", options)
  /\ UNCHANGED <<wr, dl, disk, globals, loaded, fsRef, callers, ex, reads, pu>>

\* handleURL: response.arrayBuffer() settles with one of the texts
JsonBodySettle ==
  /\ rd.pc = "body"
  /\ \/ \E bytes \in JsonContents : rd' = BodySettled(rd, bytes)
     \/ rd' = HandleUrlFailed(rd, MkError("TypeError", <<"terminated">>))
  /\ UNCHANGED <<wr, dl, disk, globals, loaded, fsRef, callers, ex, reads, pu>>

(* ----------------------------------------------------------------------- *)
(* the write shortcuts of the facade, and a read of what a write stored    *)
(* ----------------------------------------------------------------------- *)
\* the options of a call made without an options argument
DefaultOptions == [format |-> Undefined, useDetails |-> FALSE, encoding |-> Undefined]

\* the values a caller hands to each write shortcut: strings (empty, ASCII,
\* one character above U+007F, one unpaired surrogate), JSON values, Blobs,
\* ArrayBuffers and Uint8Arrays (one of them a window into a larger buffer)
WriteShortcutArgs ==
  [writeText |-> {MkVal("string", v) :
                    v \in {<<>>, <<"a", " ">>, <<"U+00C8">>, <<"U+D800">>}},
   writeJSON |-> JsonValues,
   writeBlob |-> {MkBlob(b, <<>>, "in") : b \in SampleContents},
   writeBuffer |-> {MkBytes("ArrayBuffer", b) : b \in SampleContents}
                     \cup {MkBytes("Uint8Array", <<200>>),
                           MkView("Uint8Array", <<97, 32, 123>>, 1, 2)}]

\* the data a write shortcut passes to writeFile: writeJSON stringifies, the
\* others pass their argument on
ShortcutData(method, arg) ==
  IF method = "writeJSON" THEN MkVal("string", JSONStringify(arg)) ELSE arg

\* writeText / writeJSON / writeBlob / writeBuffer (filename, data) on the
\* server backend: writeFile of node-fs up to exists(dir)
WriteShortcutCall ==
  /\ AllIdle
  /\ \E method \in DOMAIN WriteShortcutArgs, filename \in {FnATxt, FnDirB} :
       \E arg \in WriteShortcutArgs[method] :
         wr' = [IdleWr EXCEPT !.pc = "access", !.strategy = "node",
                              !.filename = filename,
                              !.data = ShortcutData(method, arg),
                              !.options = DefaultOptions, !.nAccess = @ + 1,
                              !.via = method, !.arg = arg, !.before = disk]
  /\ UNCHANGED <<rd, dl, disk, globals, loaded, fsRef, callers, ex, reads, pu>>

\* the reads made of a written file and the format each one asks for
ReadBackMethods ==
  [readText |-> "text", readJSON |-> "json", readBlob |-> "blob",
   readBuffer |-> "arrayBuffer", readFile |-> "binary"]

\* after a write has resolved and before anything else is called, the file
\* it wrote is read on the same backend: a shortcut without options, or
\* readFile(filename, {format: "binary"})
ReadBackCall ==
  /\ wr.pc = "done" /\ wr.outcome = "value"
  /\ rd.pc = "idle" /\ dl.pc = "idle" /\ ex.pc = "idle"
  /\ \E method \in DOMAIN ReadBackMethods :
       LET options == IF method = "readFile"
                      THEN [DefaultOptions EXCEPT !.format = "binary"]
                      ELSE DefaultOptions
           passed == IF method = "readFile" THEN options
                     ELSE getNRead(ReadBackMethods[method], options)
       IN rd' = ReadStart(wr.strategy, MkVal("string", wr.filename), passed,
                          method, options)
  /\ UNCHANGED <<wr, dl, disk, globals, loaded, fsRef, callers, ex, reads, pu>>

\* handleURL on the server for a name that is no absolute URL: fetch rejects
ReadBackFetchSettle ==
  /\ rd.pc = "fetch"
  /\ rd' = FetchSettled(rd, [kind |-> "reject", status |-> 0, contentType |-> None,
                             err |-> MkError("TypeError", <<"Failed to parse URL">>)])
  /\ UNCHANGED <<wr, dl, disk, globals, loaded, fsRef, callers, ex, reads, pu>>

(* ----------------------------------------------------------------------- *)
(* utils: extname, basename, dirname                                       *)
(* ----------------------------------------------------------------------- *)
\* longest path handed to the path utilities
MaxPathLen == 3

\* the characters of the paths: a letter, the dot, the two separators
PathChars == {"a", ".", "/", "\\"}

\* every path of at most MaxPathLen characters
PathInputs == UNION {[1..n -> PathChars] : n \in 0..MaxPathLen}

\* the optional second argument of basename
ExtInputs == {None, Some(<<>>), Some(<<".", "a">>), Some(<<"a">>)}

\* path.split(/[/\\]/).pop() || "": what follows the last separator
LastOfSplit(path) ==
  LET seps == {i \in 1..Len(path) : path[i] \in {"/", "\\"}}
      last == IF seps = {} THEN 0 ELSE CHOOSE i \in seps : \A j \in seps : j <= i
  IN SubSeq(path, last + 1, Len(path))

extname(path) ==
  LET base == LastOfSplit(path)
      dots == {i \in 1..Len(base) : base[i] = "."}
      last == IF dots = {} THEN 0 ELSE CHOOSE i \in dots : \A j \in dots : j <= i
      before == {i \in dots : i < last}
      prev == IF before = {} THEN 0 ELSE CHOOSE i \in before : \A j \in before : j <= i
  IN \* splitedLen > 1 && ext[splitedLen - 2] !== ""
     IF dots # {} /\ last > prev + 1
     THEN <<".">> \o SubSeq(base, last + 1, Len(base))
     ELSE <<>>

basename(path, extToStrip) ==
  LET base == LastOfSplit(path)
  IN IF extToStrip # None /\ extToStrip[1] # <<>>
        /\ Len(base) >= Len(extToStrip[1])
        /\ SubSeq(base, Len(base) - Len(extToStrip[1]) + 1, Len(base)) = extToStrip[1]
     THEN SubSeq(base, 1, Len(base) - Len(extToStrip[1]))
     ELSE base

\* filePath.replace(/\\/g, "/")
ToForwardSlashes(filePath) ==
  [i \in 1..Len(filePath) |-> IF filePath[i] = "\\" THEN "/" ELSE filePath[i]]

dirname(filePath) ==
  IF filePath = <<>> \/ filePath = <<"/">> THEN <<"/">>
  ELSE LET forward == ToForwardSlashes(filePath)
           solid == {i \in 1..Len(forward) : forward[i] # "/"}
           \* filePath.replace(/\/+$/, "")
           noTrailing ==
             IF solid = {} THEN <<>>
             ELSE SubSeq(forward, 1, CHOOSE i \in solid : \A j \in solid : j <= i)
           lastSlash == LastIndexOf(noTrailing, "/")
       IN IF lastSlash = 0 THEN <<".">>
          ELSE IF lastSlash = 1 THEN <<"/">>
          ELSE SubSeq(noTrailing, 1, lastSlash - 1)

\* the last call of a path utility: the function, its arguments, its result
IdlePu == [fn |-> "none", path |-> <<>>, ext |-> None, result |-> <<>>]

\* fn(path, ext) of the three utilities
PathUtil(fn, path, ext) ==
  CASE fn = "extname" -> extname(path)
    [] fn = "basename" -> basename(path, ext)
    [] fn = "dirname" -> dirname(path)

ExtnameCall ==
  /\ pu.fn = "none"
  /\ \E path \in PathInputs :
       pu' = [fn |-> "extname", path |-> path, ext |-> None,
              result |-> extname(path)]
  /\ UNCHANGED <<rd, wr, dl, disk, globals, loaded, fsRef, callers, ex, reads>>

BasenameCall ==
  /\ pu.fn = "none"
  /\ \E path \in PathInputs, ext \in ExtInputs :
       pu' = [fn |-> "basename", path |-> path, ext |-> ext,
              result |-> basename(path, ext)]
  /\ UNCHANGED <<rd, wr, dl, disk, globals, loaded, fsRef, callers, ex, reads>>

DirnameCall ==
  /\ pu.fn = "none"
  /\ \E path \in PathInputs :
       pu' = [fn |-> "dirname", path |-> path, ext |-> None,
              result |-> dirname(path)]
  /\ UNCHANGED <<rd, wr, dl, disk, globals, loaded, fsRef, callers, ex, reads>>

\* the caller has taken the result
PathUtilReturn ==
  /\ pu.fn # "none"
  /\ pu' = IdlePu
  /\ UNCHANGED <<rd, wr, dl, disk, globals, loaded, fsRef, callers, ex, reads>>

(* ----------------------------------------------------------------------- *)
(* specifications                                                          *)
(* ----------------------------------------------------------------------- *)
\* a filesystem with the file a.txt holding bytes and the directory sub
DiskWith(bytes) ==
  [p \in DiskPaths |->
     IF p = PathResolve(FnATxt) THEN FileEntry(bytes)
     ELSE IF p = PathResolve(FnSub) THEN DirEntry
     ELSE NoEntry]

InitDisk == {DiskWith(bytes) : bytes \in SampleContents}

IdleGlobals ==
  [window |-> FALSE, document |-> FALSE, processNode |-> TRUE, vi |-> FALSE,
   denoBun |-> FALSE]

\* the backends' calls, one call at a time
Init ==
  /\ rd = IdleRd /\ wr = IdleWr /\ dl = IdleDl
  /\ disk \in InitDisk
  /\ globals = IdleGlobals /\ loaded = NotLoaded /\ fsRef = "none"
  /\ callers = [i \in Callers |-> IdleCaller]
  /\ ex = IdleEx /\ reads = [i \in Readers |-> IdleRd]
  /\ pu = IdlePu

Next ==
  \/ ReadFileCall \/ ReadShortcutCall \/ ReadFetchSettle \/ ReadBodySettle \/ ReadBlobBytesSettle
  \/ ReadLocalStatSettle \/ ReadLocalReadSettle \/ ReadDone
  \/ WriteFileCall \/ WriteAccessSettle \/ WriteMkdirSettle \/ WriteWriteSettle
  \/ WriteStatSettle \/ WriteDone
  \/ DlWriteFileCall \/ DlClick \/ DlError \/ DlTimeout \/ DlRevoke \/ DlResume
  \/ DlForget
  \/ ExistsCall \/ ExistsSettle \/ ExistsDone

Spec == Init /\ [][Next]_vars

\* the facade under concurrent callers
InitFacade ==
  /\ rd = IdleRd /\ wr = IdleWr /\ dl = IdleDl
  /\ disk \in InitDisk
  /\ globals \in GlobalStates /\ loaded = NotLoaded /\ fsRef = "none"
  /\ callers = [i \in Callers |-> IdleCaller]
  /\ ex = IdleEx /\ reads = [i \in Readers |-> IdleRd]
  /\ pu = IdlePu

NextFacade ==
  \/ LoadModule \/ GlobalAppears
  \/ \E i \in Callers : FacadeCall(i) \/ FacadeImportSettle(i) \/ FacadeReturn(i)

SpecFacade == InitFacade /\ [][NextFacade]_vars

\* readFile calls of the backends in flight together
InitConcurrent ==
  /\ rd = IdleRd /\ wr = IdleWr /\ dl = IdleDl
  /\ disk = DiskWith(<<123, 125>>)
  /\ globals = IdleGlobals /\ loaded = NotLoaded /\ fsRef = "none"
  /\ callers = [i \in Callers |-> IdleCaller]
  /\ ex = IdleEx /\ reads = [i \in Readers |-> IdleRd]
  /\ pu = IdlePu

NextConcurrent ==
  \E i \in Readers :
    \/ CReadCall(i) \/ CReadFetchSettle(i) \/ CReadBodySettle(i)
    \/ CReadBlobBytesSettle(i) \/ CReadLocalStatSettle(i)
    \/ CReadLocalReadSettle(i) \/ CReadDone(i)

SpecConcurrent == InitConcurrent /\ [][NextConcurrent]_vars

\* reads with format json, one call at a time
InitJson ==
  /\ rd = IdleRd /\ wr = IdleWr /\ dl = IdleDl
  /\ disk \in {DiskWith(bytes) : bytes \in JsonContents}
  /\ globals = IdleGlobals /\ loaded = NotLoaded /\ fsRef = "none"
  /\ callers = [i \in Callers |-> IdleCaller]
  /\ ex = IdleEx /\ reads = [i \in Readers |-> IdleRd]
  /\ pu = IdlePu

NextJson ==
  \/ JsonReadCall \/ ReadFetchSettle \/ JsonBodySettle \/ ReadBlobBytesSettle
  \/ ReadLocalStatSettle \/ ReadLocalReadSettle \/ ReadDone

SpecJson == InitJson /\ [][NextJson]_vars

\* the server backend: a write shortcut, then reads of the file it wrote
NextRoundTrip ==
  \/ WriteShortcutCall \/ WriteAccessSettle \/ WriteMkdirSettle \/ WriteWriteSettle
  \/ WriteDone
  \/ ReadBackCall \/ ReadBackFetchSettle \/ ReadLocalStatSettle
  \/ ReadLocalReadSettle \/ ReadDone

SpecRoundTrip == Init /\ [][NextRoundTrip]_vars

\* the browser backend's downloads, one call at a time
NextDownload ==
  \/ DlNamedCall \/ DlClick \/ DlError \/ DlTimeout \/ DlRevoke \/ DlResume
  \/ DlForget

SpecDownload == Init /\ [][NextDownload]_vars

\* the path utilities, applied to every path of the sample
NextPaths == ExtnameCall \/ BasenameCall \/ DirnameCall \/ PathUtilReturn

SpecPaths == Init /\ [][NextPaths]_vars

\* the server backend's writes of data of every kind, one call at a time
NextWrite ==
  \/ WriteAnyCall \/ WriteAccessSettle \/ WriteMkdirSettle \/ WriteWriteSettle
  \/ WriteStatSettle \/ WriteDone

SpecWrite == Init /\ [][NextWrite]_vars

(* ----------------------------------------------------------------------- *)
(* properties                                                              *)
(* ----------------------------------------------------------------------- *)
\* the calls of the backends that the model tracks, with their operation
ReadFormatInvalid ==
  rd.options.format # Undefined /\ ~IsFormatValid(rd.options.format)

SupportedList == Join(VALID_FORMATS, ", ")

\* C1: a readFile call whose options.format is not one of the five formats
\* has issued no fetch, no Blob byte extraction, no stat and no file read, and
\* once settled it is rejected with a message listing the five formats.
C1_FailFast ==
  (rd.pc # "idle" /\ ReadFormatInvalid /\ rd.input.t \in {"string", "Blob", "File"})
    => /\ rd.nFetch = 0 /\ rd.nBody = 0 /\ rd.nBlobBytes = 0
       /\ rd.nStat = 0 /\ rd.nRead = 0
       /\ (rd.pc = "done" => /\ rd.outcome = "error"
                             /\ Contains(rd.error.message, SupportedList))

\* the message the Error Wrapper must produce for a failure e
WrappedMessage(e, strategy, operation) ==
  <<"Failed to ", operation, " file in ",
    IF strategy = "node" THEN "Node.js" ELSE "Browser", ": ">>
    \o (IF e.isError THEN e.message ELSE <<"Unknown error">>)

IsWrapped(c, operation) ==
  c.outcome = "error"
    => /\ c.thrown # None
       /\ c.error.cls = "UniversalFsError"
       /\ c.error.message = WrappedMessage(c.thrown[1], c.strategy, operation)
       /\ c.error.cause = c.thrown

\* C2: every rejection of readFile or writeFile, on either backend, is a
\* UniversalFsError with message "Failed to <op> file in <env>: <underlying
\* message or Unknown error>" and with the underlying failure as cause.
C2_Wrapped == IsWrapped(rd, "read") /\ IsWrapped(wr, "write") /\ IsWrapped(dl, "write")

HasContext(c, operation, filename) ==
  c.outcome = "error"
    => /\ c.error.strategy = c.strategy
       /\ c.error.operation = operation
       /\ c.error.filename = Some(filename)
       /\ c.error.cause = c.thrown

\* C3: every error of readFile or writeFile carries strategy, operation,
\* the filename the caller passed, and the underlying failure as cause.
C3_ErrorContext ==
  /\ (rd.input.t = "string" => HasContext(rd, "read", rd.input.v))
  /\ HasContext(wr, "write", wr.filename)
  /\ HasContext(dl, "write", dl.filename)

\* C4: under every interleaving of concurrent first uses all facade calls
\* dispatch to the same backend module, and the cached reference, once set,
\* is never replaced by another backend nor reset; later calls reuse it.
C4_SingleBackend ==
  [][/\ (fsRef # "none" => fsRef' = fsRef)
     /\ \A i \in Callers :
          callers'[i].backend # "none" => callers'[i].backend = fsRef']_vars

\* two calls were both in their import when the reference was first set and
\* both have been dispatched
C4_Witness ==
  \E i, j \in Callers :
    /\ i # j
    /\ callers[i].pc = "dispatched" /\ callers[i].firstUse
    /\ callers[j].pc = "dispatched" /\ callers[j].firstUse
    /\ fsRef # "none"

\* C5: on every exit path of browser writeFile the object URL has been
\* revoked and the anchor detached by the time the call's promise settles.
C5_CleanupBySettle ==
  (dl.pc = "done" /\ dl.urlCreated) => (dl.revoked >= 1 /\ ~dl.attached)

\* C6: a timer that fires before any click rejects the call with "Download
\* timeout", and whatever the order of click, error and timeout the object
\* URL is revoked exactly once.
C6_RevokedExactlyOnce ==
  (dl.urlCreated /\ ~dl.threw)
    => /\ (dl.pc = "done" /\ dl.timedOut)
            => /\ dl.outcome = "error"
               /\ Contains(dl.error.message, <<"Download timeout">>)
       /\ dl.revoked + dl.revokePending <= 1
       /\ DlQuiescent => dl.revoked = 1

NonOkResponse == rd.resp.kind = "response" /\ rd.resp.status \notin 200..299

HttpText == <<"HTTP ", ToString(rd.resp.status), ": ", StatusText(rd.resp.status)>>

FetchRejected == rd.input.t = "string" /\ rd.netErr # None /\ rd.resp.kind = "none"

\* what readFileLocal returns for the file as it is on disk
LocalValues ==
  {convertFromBufferNode(EntryAt(disk, PathResolve(rd.input.v)).data, rd.options,
                         PathResolve(rd.input.v), ba).value : ba \in BOOLEAN}

\* C8: on the server backend a fetch that fails at the network layer is
\* followed by exactly one local-path attempt; its result is the result of
\* the call, and its failure (not the network error) is what the call
\* rejects with; nothing further is attempted.
C8_OneShotFallback ==
  (rd.strategy = "node" /\ FetchRejected)
    => /\ rd.nLocal = 1 /\ rd.nFetch = 1 /\ rd.nStat = 1 /\ rd.nRead <= 1
       /\ rd.pc \in {"localStat", "localRead", "done"}
       /\ (rd.pc = "done" /\ rd.outcome = "value")
            => /\ rd.nRead = 1
               /\ rd.value \in LocalValues
               /\ rd.details => (rd.envelope.filename = rd.input.v
                                  /\ rd.envelope.data = rd.value)
       /\ (rd.pc = "done" /\ rd.outcome = "error")
            => /\ rd.thrown # rd.netErr
               /\ rd.error.cause = rd.thrown
               /\ rd.error.message
                    = WrappedMessage(rd.thrown[1], "node", "read")
               /\ ~Contains(rd.error.message, rd.netErr[1].message)

\* after a rejected fetch the local-path attempt has read the file and its
\* envelope is the result of the call
C8_Witness ==
  /\ rd.strategy = "node" /\ FetchRejected /\ rd.pc = "done"
  /\ rd.outcome = "value" /\ rd.details /\ rd.nRead = 1

\* C9: on the browser backend a failed fetch is never followed by a
\* local-path attempt; the call rejects with the network error as cause and
\* its message inside the rejection message.
C9_NoFallbackInBrowser ==
  (rd.strategy = "browser" /\ FetchRejected)
    => /\ rd.nLocal = 0 /\ rd.nStat = 0 /\ rd.nRead = 0
       /\ rd.pc = "done" /\ rd.outcome = "error"
       /\ rd.error.cause = rd.netErr
       /\ Contains(rd.error.message, rd.netErr[1].message)

C9_Witness ==
  rd.strategy = "browser" /\ FetchRejected /\ rd.pc = "done" /\ rd.outcome = "error"

\* C10: detection happens at the first call: the module loads without
\* raising, a first call is served by the backend matching the globals
\* present at that call, and with neither runtime detected every call is
\* rejected with "Unsupported environment" and the reference stays unset.
C10_DetectAtFirstCall ==
  \A i \in Callers :
    (callers[i].pc \in {"dispatched", "rejected"} /\ callers[i].firstUse)
      => /\ (callers[i].envAtCall = "none")
              => (callers[i].pc = "rejected"
                  /\ callers[i].error = UnsupportedEnvironment)
         /\ (callers[i].envAtCall # "none")
              => callers[i].error # UnsupportedEnvironment
         /\ callers[i].pc = "dispatched"
              => callers[i].backend = callers[i].envAtCall

\* readFile's first argument is neither a string nor a Blob / File
UnsupportedInput == rd.pc # "idle" /\ rd.input.t \notin {"string", "Blob", "File"}

\* C11: readFile with an input that is neither a string nor a Blob / File
\* (null included) is rejected at once with a message containing
\* "Unsupported input type": no fetch, no byte extraction, no filesystem access.
C11_UnsupportedInput ==
  UnsupportedInput
    => /\ rd.pc = "done" /\ rd.outcome = "error"
       /\ Contains(rd.error.message, MSG_UNSUPPORTED_INPUT)
       /\ rd.nFetch = 0 /\ rd.nBody = 0 /\ rd.nBlobBytes = 0
       /\ rd.nStat = 0 /\ rd.nRead = 0 /\ rd.nLocal = 0

\* a Blob / File was passed to readFile with format exactly "blob"
BlobIdentityCall ==
  rd.pc # "idle" /\ isBlob(rd.input) /\ rd.options.format = "blob"

\* C12: readFile of a Blob / File with format "blob" returns the very object
\* that was passed in (bare or as the envelope's data); its arrayBuffer() is
\* never invoked and the Format Converter is never applied.
C12_BlobIdentity ==
  BlobIdentityCall
    => /\ rd.pc = "done" /\ rd.outcome = "value"
       /\ rd.value = rd.input /\ rd.value.id = "in"
       /\ rd.details => rd.envelope.data = rd.input
       /\ rd.nBlobBytes = 0 /\ rd.nConvert = 0

\* a File has been passed through into an envelope
C12_Witness ==
  /\ BlobIdentityCall /\ rd.input.t = "File" /\ rd.pc = "done"
  /\ rd.details /\ rd.envelope.data.id = "in"

\* readFile has resolved
ReadResolved == rd.pc = "done" /\ rd.outcome = "value"

\* what a Blob / File input converts to, computed without useDetails
BlobRouteValue ==
  LET bare == [rd.options EXCEPT !.useDetails = FALSE]
  IN IF rd.options.format = "blob" THEN rd.input
     ELSE convertFromBuffer(rd.input.b, handleBlob(rd.input, "text").mimeType,
                            bare).value

\* C13: readFile resolves to the bare converted value when useDetails is
\* absent or false, and with useDetails to an envelope that has filename,
\* size, strategy, timestamp and data, data being the value the call returns
\* without useDetails; on the network, Blob and local-path routes alike.
C13_BareOrEnvelope ==
  ReadResolved
    => /\ rd.details = rd.options.useDetails
       /\ ~rd.options.useDetails => rd.envelope = NoEnvelope
       /\ rd.options.useDetails
            => /\ {"filename", "size", "strategy", "timestamp", "data"}
                    \subseteq rd.envelope.keys
               /\ rd.envelope.data = rd.value
       /\ isBlob(rd.input) => rd.value = BlobRouteValue
       /\ rd.nLocal = 1 => rd.value \in LocalValues

\* a local-path read of JSON has resolved to an envelope around the object
C13_Witness ==
  /\ ReadResolved /\ rd.details /\ rd.nLocal = 1
  /\ rd.options.format = "json" /\ rd.envelope.data.t = "object"

\* readFile of a string has resolved to an envelope
StringEnvelope == ReadResolved /\ rd.details /\ rd.input.t = "string"

\* C14 as stated: the envelope's filename for a string input is the string
\* exactly as the caller gave it, on both backends and on both routes.
C14_FilenameAsGiven ==
  StringEnvelope => rd.envelope.filename = rd.input.v

\* s is what follows the last "/" of whole, or whole itself when nothing
\* follows it
IsLastSegmentOf(s, whole) ==
  IF Len(whole) = 0 \/ whole[Len(whole)] = "/" THEN s = whole
  ELSE /\ Len(s) > 0 /\ Len(s) <= Len(whole)
       /\ s = SubSeq(whole, Len(whole) - Len(s) + 1, Len(whole))
       /\ \A i \in 1..Len(s) : s[i] # "/"
       /\ Len(s) < Len(whole) => whole[Len(whole) - Len(s)] = "/"

\* C14 amended: on the server local-path route the envelope's filename is
\* the string as given; on the network route (either backend) it is the
\* part of the string after its last "/", or the whole string when nothing
\* follows the last "/".
C14_FilenameByRoute ==
  StringEnvelope
    => /\ rd.nLocal = 1 => rd.envelope.filename = rd.input.v
       /\ rd.nLocal = 0 => IsLastSegmentOf(rd.envelope.filename, rd.input.v)

\* the server backend has fetched "h://x/c.txt" and named the result "c.txt"
C14_Witness ==
  /\ StringEnvelope /\ rd.strategy = "node" /\ rd.nLocal = 0
  /\ rd.input.v = FnUrl /\ rd.envelope.filename # rd.input.v

\* the envelope call c resolved to names c's backend and has path only on the
\* server backend, url only on the browser backend
EnvelopeOfBackend(c) ==
  (c.pc = "done" /\ c.outcome = "value" /\ c.details)
    => /\ c.envelope.strategy = c.strategy
       /\ "path" \in c.envelope.keys => c.strategy = "node"
       /\ "url" \in c.envelope.keys => c.strategy = "browser"

\* C15: in every envelope returned by readFile or writeFile strategy names
\* the backend that serviced the call, path is present only under the server
\* backend and url only under the browser backend.
C15_EnvelopeFields ==
  EnvelopeOfBackend(rd) /\ EnvelopeOfBackend(wr) /\ EnvelopeOfBackend(dl)

\* what the writeFile call c resolved to: undefined without useDetails, an
\* envelope without a data key with it
WriteResult(c) ==
  (c.pc = "done" /\ c.outcome = "value")
    => /\ c.details = c.options.useDetails
       /\ ~c.options.useDetails => c.envelope = NoEnvelope
       /\ c.options.useDetails
            => /\ "data" \notin c.envelope.keys
               /\ {"filename", "size", "strategy", "timestamp"}
                    \subseteq c.envelope.keys

\* C16: writeFile on either backend resolves to undefined when useDetails is
\* not set, and with useDetails to an envelope that has no data key at all.
C16_WriteResult == WriteResult(wr) /\ WriteResult(dl)

\* a server write with useDetails has resolved to its envelope
C16_Witness ==
  /\ wr.pc = "done" /\ wr.outcome = "value" /\ wr.options.useDetails
  /\ wr.envelope.path = PathResolve(wr.filename)

\* the entry a server local-path read has just read, written by writeFile
ReadBackOfWrite ==
  /\ ReadResolved /\ rd.details /\ rd.strategy = "node" /\ rd.nLocal = 1
  /\ EntryAt(disk, PathResolve(rd.input.v)).payloadLen >= 0

\* C17: on the server backend, after writeFile(f, payload) has succeeded, a
\* readFile(f, {useDetails: true}) with no write to f in between returns an
\* envelope whose size is the byte length of the payload, for every supported
\* payload type and every read format.
C17_SizeRoundTrip ==
  ReadBackOfWrite
    => rd.envelope.size = EntryAt(disk, PathResolve(rd.input.v)).payloadLen

\* a read shortcut of the facade was called
ShortcutCall == rd.pc # "idle" /\ rd.via \in DOMAIN ReadShortcuts

\* the type of value each format converts to (Buffer where a Blob cannot be
\* constructed, the caller's File where a File is passed through)
TypesOfFormat(format) ==
  CASE format = "text" -> {"string"}
    [] format = "json" -> {"object"}
    [] format = "blob" -> {"Blob", "File", "Buffer"}
    [] format = "arrayBuffer" -> {"ArrayBuffer"}
    [] OTHER -> {}

\* C18: readText, readJSON, readBlob and readBuffer are readFile with format
\* fixed to text, json, blob and arrayBuffer: the backend's readFile runs with
\* the caller's options except for format, which is the fixed one whatever
\* the caller supplied, and the call resolves to what that format converts to.
C18_ShortcutIsReadFile ==
  ShortcutCall
    => /\ rd.options.format = ReadShortcuts[rd.via]
       /\ rd.options.useDetails = rd.callerOptions.useDetails
       /\ rd.options.encoding = rd.callerOptions.encoding
       /\ ReadResolved
            => /\ rd.value.t \in TypesOfFormat(ReadShortcuts[rd.via])
               /\ rd.details = rd.callerOptions.useDetails
               /\ isBlob(rd.input) => rd.value = BlobRouteValue
               /\ rd.nLocal = 1 => rd.value \in LocalValues
       /\ (rd.pc = "done" /\ rd.outcome = "error" /\ ToStringCallable(rd.input))
            => rd.error = ReadFileCatch(rd.thrown[1], rd.strategy, rd.input)

\* readText was called with format "json" in its options and resolved to text
C18_Witness ==
  /\ ShortcutCall /\ rd.via = "readText" /\ rd.callerOptions.format = "json"
  /\ ReadResolved /\ rd.value.t = "string"

\* C19: exists never rejects: the browser backend resolves true exactly when
\* the HEAD request yields a 2xx response and false for any other response or
\* a thrown error; the server backend resolves true exactly when the access
\* check succeeds and false on any error.
C19_ExistsNeverRejects ==
  /\ ex.settled # "rejected"
  /\ ex.pc = "done"
       => /\ ex.settled = "resolved"
          /\ ex.strategy = "browser"
               => (ex.result <=> (ex.probe.kind = "response"
                                   /\ ex.probe.status \in 200..299))
          /\ ex.strategy = "node" => (ex.result <=> ex.probe.kind = "access")

\* the HEAD request was rejected and exists resolved false
C19_Witness ==
  /\ ex.pc = "done" /\ ex.strategy = "browser" /\ ex.probe.kind = "reject"
  /\ ex.settled = "resolved" /\ ~ex.result

\* what call c must resolve to by its own input and options alone: the bytes
\* of its Blob, of its file on disk, or of the body served for its URL,
\* converted to its format
OwnResult(c) ==
  IF isBlob(c.input)
  THEN LET h == handleBlob(c.input, c.options.format)
       IN [value |-> convertFromBuffer(c.input.b, h.mimeType, c.options).value,
           filename |-> h.actualFilename, size |-> Len(c.input.b),
           mimeType |-> h.mimeType]
  ELSE IF c.nLocal = 1
    THEN LET p == PathResolve(c.input.v)
         IN [value |-> convertFromBufferNode(EntryAt(disk, p).data, c.options, p,
                                             TRUE).value,
             filename |-> c.input.v, size |-> Len(EntryAt(disk, p).data),
             mimeType |-> guessMimeType(c.input.v)]
  ELSE [value |-> convertFromBuffer(NetContent(c.input.v),
                                    guessMimeType(c.input.v), c.options).value,
        filename |-> LastSegmentOrAll(c.input.v),
        size |-> Len(NetContent(c.input.v)),
        mimeType |-> guessMimeType(c.input.v)]

\* C20: of readFile calls in flight together on distinct inputs, under every
\* interleaving of their suspension points each resolves to the converted
\* content of its own input in its own format, and its filename, size and
\* mimeType are those of its own input.
C20_IndependentReads ==
  \A i \in Readers :
    (reads[i].pc = "done" /\ reads[i].outcome = "value")
      => /\ reads[i].value = OwnResult(reads[i]).value
         /\ reads[i].details
              => /\ reads[i].envelope.data = OwnResult(reads[i]).value
                 /\ reads[i].envelope.filename = OwnResult(reads[i]).filename
                 /\ reads[i].envelope.size = OwnResult(reads[i]).size
                 /\ reads[i].envelope.mimeType = OwnResult(reads[i]).mimeType

\* two calls were in flight together and each has resolved to its own content
C20_Witness ==
  \E i, j \in Readers :
    /\ i < j
    /\ reads[i].pc = "done" /\ reads[i].outcome = "value" /\ reads[i].details
    /\ reads[j].pc = "done" /\ reads[j].outcome = "value" /\ reads[j].details
    /\ reads[i].value # reads[j].value

(* ----------------------------------------------------------------------- *)
(* C21: the rejection of a read of text that is not JSON                   *)
(* ----------------------------------------------------------------------- *)
\* the text convertToJSON was handed by the call that has ended: the local
\* route decodes with options.encoding, every other route as UTF-8
SourceText ==
  IF rd.nLocal > 0
  THEN BufferToString(rd.raw[1], IF rd.options.encoding = Undefined THEN "utf8"
                                 ELSE rd.options.encoding)
  ELSE te_decode(rd.raw[1])

\* a readFile call with format json has ended after reading all of its input
JsonReadEnded ==
  rd.pc = "done" /\ rd.options.format = "json" /\ rd.raw # None

\* the characters of s that begin a whitespace run or are no whitespace, the
\* former written as one space
RunsAsSpaces(s) ==
  LET kept == {i \in 1..Len(s) :
                 s[i] \notin Whitespace \/ i = 1 \/ s[i - 1] \notin Whitespace}
      nth(j) == CHOOSE i \in kept : Cardinality({k \in kept : k <= i}) = j
  IN [j \in 1..Cardinality(kept) |->
        IF s[nth(j)] \in Whitespace THEN " " ELSE s[nth(j)]]

\* the preview the message ends with: the first PREVIEW_LEN characters with
\* whitespace runs collapsed, then "..." exactly for a longer text
PreviewOf(s) ==
  RunsAsSpaces(SubSeq(s, 1, IF Len(s) < PREVIEW_LEN THEN Len(s) ELSE PREVIEW_LEN))
    \o (IF Len(s) > PREVIEW_LEN THEN <<"...">> ELSE <<>>)

EndsWith(s, t) == Len(s) >= Len(t) /\ SubSeq(s, Len(s) - Len(t) + 1, Len(s)) = t

\* C21: on both backends a read with format json of content that is not
\* valid JSON rejects, and the message holds "Invalid JSON format", the
\* parser's message and, at its end, the preview of the first 100 characters
\* with whitespace runs collapsed, followed by "..." iff the text is longer
C21_InvalidJsonMessage ==
  (JsonReadEnded /\ ~JSONParse(SourceText).ok) =>
    /\ rd.outcome = "error"
    /\ Contains(rd.error.message, <<"Invalid JSON format: ">>)
    /\ Contains(rd.error.message, JSONParse(SourceText).err.message)
    /\ EndsWith(rd.error.message, <<"Preview: ">> \o PreviewOf(SourceText))
    /\ (EndsWith(rd.error.message, <<"...">>) <=> Len(SourceText) > PREVIEW_LEN)

\* a browser read rejected for a text longer than the preview whose first
\* 100 characters hold a whitespace run, and the message ends with "..."
C21_Witness ==
  /\ JsonReadEnded /\ rd.strategy = "browser" /\ rd.outcome = "error"
  /\ Len(SourceText) > PREVIEW_LEN
  /\ Len(PreviewOf(SourceText)) < PREVIEW_LEN + 1
  /\ EndsWith(rd.error.message, <<"...">>)

(* ----------------------------------------------------------------------- *)
(* C22: round trips of text, JSON and bytes on the server backend          *)
(* ----------------------------------------------------------------------- *)
\* the write shortcut w has resolved and a read of the same file by r,
\* started after it, has ended
ReadBackEnded(w, r) ==
  /\ wr.pc = "done" /\ wr.outcome = "value" /\ wr.via = w
  /\ rd.pc = "done" /\ rd.via = r /\ rd.input.v = wr.filename

\* the bytes a buffer or view shows: its window over the underlying buffer
BytesOf(val) == SubSeq(val.b, val.off + 1, val.off + val.len)

\* every character of the string is a Unicode scalar value: no unpaired
\* surrogate
WellFormed(v) == \A i \in 1..Len(v) : CodeOfChar(v[i]) \notin Surrogates

\* a read-back that rejected did so for a failure of the host's filesystem
HostFailure == rd.outcome = "error" => Contains(rd.error.message, <<"EACCES">>)

TextRoundTrip ==
  ReadBackEnded("writeText", "readText") =>
    /\ HostFailure
    /\ rd.outcome = "value" => rd.value = wr.arg

JsonRoundTrip ==
  ReadBackEnded("writeJSON", "readJSON") =>
    /\ HostFailure
    /\ rd.outcome = "value" => rd.value = wr.arg

BufferRoundTrip ==
  /\ ReadBackEnded("writeBuffer", "readBuffer") =>
       /\ HostFailure
       /\ rd.outcome = "value" =>
            rd.value.t = "ArrayBuffer" /\ BytesOf(rd.value) = BytesOf(wr.arg)
  /\ ReadBackEnded("writeBuffer", "readFile") =>
       /\ HostFailure
       /\ rd.outcome = "value" =>
            rd.value.t = "Buffer" /\ BytesOf(rd.value) = BytesOf(wr.arg)

\* C22 as stated: on the server backend writeText then readText returns
\* exactly s for every string s, writeJSON then readJSON a value deep-equal
\* to v, writeBuffer then readBuffer or readFile binary the same bytes
C22_RoundTrip == TextRoundTrip /\ JsonRoundTrip /\ BufferRoundTrip

\* C22 amended: the text round trip returns exactly s for every string s
\* without unpaired surrogates; the JSON and byte round trips are as stated
C22_RoundTripWellFormed ==
  /\ (ReadBackEnded("writeText", "readText") /\ WellFormed(wr.arg.v)) =>
       /\ HostFailure
       /\ rd.outcome = "value" => rd.value = wr.arg
  /\ ReadBackEnded("writeText", "readText") =>
       /\ HostFailure
       /\ rd.outcome = "value" =>
            rd.value = MkVal("string",
                         [i \in 1..Len(wr.arg.v) |->
                            IF CodeOfChar(wr.arg.v[i]) \in Surrogates
                            THEN "U+FFFD" ELSE wr.arg.v[i]])
  /\ JsonRoundTrip
  /\ BufferRoundTrip

\* readText has returned the character above U+007F that writeText wrote
C22_Witness ==
  /\ ReadBackEnded("writeText", "readText") /\ rd.outcome = "value"
  /\ wr.arg.v = <<"U+00C8">> /\ rd.value.v = <<"U+00C8">>
  /\ rd.nLocal = 1 /\ rd.nConvert = 1

(* ----------------------------------------------------------------------- *)
(* C23: round trip of a Blob on the server backend                         *)
(* ----------------------------------------------------------------------- *)
\* C23: on the server backend, for every Blob b written with writeBlob(f, b)
\* under default options, readBlob(f) returns a value whose byte content is
\* the byte content of b.
C23_BlobRoundTrip ==
  (ReadBackEnded("writeBlob", "readBlob") /\ rd.outcome = "value")
    => BytesOf(rd.value) = wr.arg.b

(* ----------------------------------------------------------------------- *)
(* C24, C25: the download name of the anchor                               *)
(* ----------------------------------------------------------------------- *)
\* browser writeFile has created the anchor and set its download name
AnchorNamed ==
  dl.pc # "idle" /\ (dl.clickListener \/ dl.errorListener \/ dl.clicked)

\* the part of a path after its last "/"
FinalSegment(filename) ==
  SubSeq(filename, LastIndexOf(filename, "/") + 1, Len(filename))

\* C24: browser writeFile gives the anchor a download name equal to the final
\* path segment of the filename argument; directory components of the path do
\* not appear in it.
C24_DownloadIsBasename ==
  AnchorNamed => dl.download = FinalSegment(dl.filename)

UnsafeChars == {"<", ">", ":", "\"", "/", "\\", "|", "?", "*"}

\* C25: the download name on the anchor holds none of < > : " / \ | ? *,
\* hence no "../", and is at most 255 characters long, for every filename
\* passed to browser writeFile.
C25_DownloadNameSafe ==
  AnchorNamed =>
    /\ \A i \in 1..Len(dl.download) : dl.download[i] \notin UnsafeChars
    /\ ~Contains(dl.download, <<".", ".", "/">>)
    /\ Len(dl.download) <= FILENAME_MAX

\* the anchor carries a name cut to 255 characters for a filename that is
\* longer, starts with "../" and ends in an extension
C25_Witness ==
  /\ AnchorNamed /\ Len(dl.filename) > FILENAME_MAX
  /\ Contains(dl.filename, <<".", ".", "/">>)
  /\ Len(dl.download) = FILENAME_MAX

(* ----------------------------------------------------------------------- *)
(* C26: the path utilities and the two separators                          *)
(* ----------------------------------------------------------------------- *)
\* C26: extname, basename and dirname give for every path p the result they
\* give for p with every backslash replaced by a forward slash; the result of
\* dirname holds no backslash.
C26_SeparatorTolerant ==
  pu.fn # "none" =>
    /\ pu.result = PathUtil(pu.fn, ToForwardSlashes(pu.path), pu.ext)
    /\ pu.fn = "dirname" => \A i \in 1..Len(pu.result) : pu.result[i] # "\\"

(* ----------------------------------------------------------------------- *)
(* C27: the pseudo-locator of Blob and File inputs                         *)
(* ----------------------------------------------------------------------- *)
\* a read of a Blob or File has resolved with its envelope
BlobEnvelope == ReadResolved /\ rd.details /\ isBlob(rd.input)

\* the locator of a File named n
FileLocator(n) == <<"local-", "file", "://">> \o encodeURIComponent(n)

FormatOf(c) == IF c.options.format = Undefined THEN "text" ELSE c.options.format

\* the blob-identity case: a Blob or File asked for as blob
IdentityCase(c) == isBlob(c.input) /\ FormatOf(c) = "blob"

\* the complete raw bytes of the input of a call that read them: the Blob's
\* bytes, the file's bytes on the local-path route, the response body
RawIsComplete(c) ==
  /\ c.raw # None
  /\ isBlob(c.input) => c.raw[1] = c.input.b
  /\ c.nLocal > 0 => c.raw[1] = EntryAt(disk, PathResolve(c.input.v)).data

\* the text the converter decodes the raw bytes to on the route of the call
DecodedRaw(c) ==
  IF c.nLocal > 0
  THEN BufferToString(c.raw[1], IF c.options.encoding = Undefined THEN "utf8"
                                ELSE c.options.encoding)
  ELSE te_decode(c.raw[1])

\* value is what one application of the Format Converter makes of the raw
\* bytes: their text, the value their text parses to, or all of the bytes
ConvertedOnce(c) ==
  CASE FormatOf(c) = "text" -> c.value = MkVal("string", DecodedRaw(c))
    [] FormatOf(c) = "json" ->
         JSONParse(DecodedRaw(c)).ok /\ c.value = JSONParse(DecodedRaw(c)).value
    [] FormatOf(c) \in {"blob", "binary", "arrayBuffer"} ->
         c.value.t \in {"Blob", "Buffer", "Uint8Array", "ArrayBuffer"}
         /\ c.value.b = c.raw[1]
    [] OTHER -> FALSE

\* C28: a readFile call ends in exactly one outcome and returns nothing
\* before; a call that resolves has applied the Format Converter exactly once
\* to the complete raw bytes of its input, or not at all in the blob-identity
\* case where the value is the caller's Blob; it never resolves with
\* undefined.
C28_OneOutcomeConvertedOnce ==
  /\ rd.pc \notin {"idle", "done"} =>
       rd.outcome = "none" /\ rd.value = UndefinedVal /\ rd.error = NonErrorValue
  /\ rd.pc = "done" =>
       /\ rd.outcome \in {"value", "error"}
       /\ rd.outcome = "error" =>
            rd.value = UndefinedVal /\ rd.envelope = NoEnvelope /\ rd.thrown # None
       /\ rd.outcome = "value" =>
            /\ rd.error = NonErrorValue /\ rd.thrown = None
            /\ rd.value # UndefinedVal
            /\ rd.details => rd.envelope.data = rd.value
            /\ IF IdentityCase(rd)
               THEN rd.nConvert = 0 /\ rd.value = rd.input
               ELSE rd.nConvert = 1 /\ RawIsComplete(rd) /\ ConvertedOnce(rd)

\* a read that fell back to the local path has resolved with the text of
\* the whole file, converted once
C28_Witness ==
  /\ rd.pc = "done" /\ rd.outcome = "value" /\ rd.strategy = "node"
  /\ rd.nLocal = 1 /\ rd.nFetch = 1 /\ rd.nConvert = 1
  /\ FormatOf(rd) = "text" /\ rd.value = MkVal("string", <<"a", " ">>)

(* ----------------------------------------------------------------------- *)
(* C29: a failed normalization leaves the filesystem as it was             *)
(* ----------------------------------------------------------------------- *)
\* server writeFile has rejected because normalizeWriteData threw
UnsupportedDataFailure ==
  /\ wr.pc = "done" /\ wr.outcome = "error" /\ wr.thrown # None
  /\ StartsWith(wr.thrown[1].message, <<"Unsupported data type: ">>)

\* C29: server writeFile normalizes the data before it ensures the directory
\* chain, writes and stats; a call that fails with "Unsupported data type"
\* has created no directory and written no file.
C29_NormalizeBeforeMkdir ==
  UnsupportedDataFailure => disk = wr.before

(* ----------------------------------------------------------------------- *)
(* C30: the normalization rule of each type of data                        *)
(* ----------------------------------------------------------------------- *)
\* the encoding of the write call: options.encoding, utf8 when absent
WriteEncoding == IF wr.options.encoding = Undefined THEN "utf8" ELSE wr.options.encoding

\* the types normalizeWriteData has a rule for
SupportedDataTypes ==
  {"Uint8Array", "Buffer", "string", "ArrayBuffer", "Blob", "File", "DataView",
   "Uint16Array"}

\* the call has gone past normalization and handed bytes to fs.writeFile
Normalized == wr.pc # "idle" /\ wr.nWrite = 1

\* the call has ended on the throw of normalizeWriteData
RejectedUnsupported ==
  /\ wr.pc = "done" /\ wr.outcome = "error" /\ wr.nWrite = 0
  /\ Contains(wr.error.message, <<"Unsupported data type: ">>)

\* wr.bytes are the bytes the one rule of the data's type gives
BytesByRule ==
  CASE wr.data.t \in {"Uint8Array", "Buffer"} -> wr.bytes = BytesOf(wr.data)
    [] wr.data.t = "string" ->
         wr.bytes = (IF WriteEncoding = "binary" THEN Latin1Encode(wr.data.v)
                     ELSE Utf8Encode(wr.data.v))
    [] wr.data.t = "ArrayBuffer" -> wr.bytes = wr.data.b
    [] wr.data.t \in {"Blob", "File"} ->
         IF WriteEncoding = "binary" THEN wr.bytes = wr.data.b
         ELSE wr.bytes = Utf8Encode(Utf8Decode(wr.data.b))
    [] wr.data.t \in {"DataView", "Uint16Array"} ->
         /\ Len(wr.bytes) = wr.data.len
         /\ \A i \in 1..wr.data.len : wr.bytes[i] = wr.data.b[wr.data.off + i]
    [] OTHER -> FALSE

====
